---------------------------- MODULE Spec2Model ----------------------------
(***************************************************************************)
(* State-machine model of the MQTT core of ccu-jack (src/mqtt/mqtt.go):    *)
(*   - Server.Start / Server.Stop with the two listener goroutines, the    *)
(*     WaitGroup doneServer and the error channel ServeErr;                *)
(*   - EventReceiver, the forwarding chain of XML-RPC notification         *)
(*     handlers, and publishEvent / PublishPV / Publish.                   *)
(* Go strings are modelled as sequences of one-character strings so that   *)
(* IndexRune, HasPrefix and slicing are computed as the code computes them.*)
(***************************************************************************)
EXTENDS Integers, Sequences, FiniteSets, TLC

(***************************************************************************)
(* Bounds of the model                                                     *)
(***************************************************************************)
\* largest capacity of the caller-supplied ServeErr channel (0 = unbuffered)
MaxChanCap == 1
\* number of EventReceiver handlers chained through Next
ChainLen == 2
\* number of notifications the event source delivers
MaxEvents == 2
\* longest device address drawn for publishEvent
MaxAddrLen == 4
\* largest number of members of a JSON object drawn as payload
MaxMembers == 2
\* number of calls of Event the concurrent sources make in all
MaxConcCalls == 3

(***************************************************************************)
(* Server: configuration, broker handle, WaitGroup, listener goroutines     *)
(***************************************************************************)
VARIABLES
    Addr,        \* Server.Addr: "" or a binding address
    AddrTLS,     \* Server.AddrTLS: "" or a binding address
    certValid,   \* whether tls.LoadX509KeyPair(CertFile, KeyFile) succeeds
    ServeErr,    \* Server.ServeErr: [isNil, cap]; cap 0 is an unbuffered channel
    consumer,    \* whether a goroutine of the caller keeps receiving from ServeErr
    chanBuf,     \* the buffered elements of the ServeErr channel
    received,    \* what the consumer has received from ServeErr, in order
    server,      \* Server.server: "nil", "open" (created by Start), "closed"
    doneServer,  \* counter of the WaitGroup Server.doneServer
    pcMain,      \* position of the goroutine that calls Start and Stop, or "panic"
    task         \* listener goroutines: [pc, err] per listener

(***************************************************************************)
(* EventReceiver chain                                                     *)
(***************************************************************************)
VARIABLES
    fed,         \* notifications the source has handed to the first handler
    cur,         \* the notification of the call in progress
    hop,         \* 0: no call in progress; h: handler h is executing
    dir,         \* "call": descending through Next; "ret": returning
    retv,        \* the value being returned up the chain
    observed,    \* per handler (and final receiver): notifications it was called with
    callLog,     \* per handler, for the current call: publish error, forwards, returns
    published,   \* per handler: messages its Server submitted to the broker
    attempts     \* per handler: its calls so far, each with the outcome of its publish

(***************************************************************************)
(* Application of publishEvent to one drawn input                          *)
(***************************************************************************)
VARIABLES
    pAddress, pValueKey, pValue, pBrokerOK,  \* the drawn input
    pRes                                     \* result of publishEvent, or pending

(***************************************************************************)
(* Wire codec: pvToWire, then wireToPV, applied to one drawn input         *)
(***************************************************************************)
VARIABLES
    cPV,         \* the veap.PV given to pvToWire
    cPayload,    \* the payload given to wireToPV
    cEnc,        \* pvToWire: "pending", its error, or "none" when a payload was drawn
    cDec         \* result of wireToPV, or pending

(***************************************************************************)
(* Calls of Publish, PublishPV and Event by the application                 *)
(***************************************************************************)
VARIABLES
    pubCall      \* the last call: its arguments, the broker handle it found,
                 \* the error of its publish, what it submitted, what it logged,
                 \* what it passed to Next and what it returned

(***************************************************************************)
(* Concurrent calls of Event on one EventReceiver by independent sources   *)
(***************************************************************************)
VARIABLES
    cFrame,      \* per source: position in Event and the arguments of its call
    cCalls,      \* the calls of Event, in the order in which they began
    cAttempts,   \* the calls of Server.PublishPV, in the order the broker saw them
    cForwards    \* the calls of Next.Event, in the order Next saw them

cfgVars == <<Addr, AddrTLS, certValid, ServeErr, consumer>>
srvVars == <<chanBuf, received, server, doneServer, pcMain, task>>
chainVars == <<fed, cur, hop, dir, retv, observed, callLog, published, attempts>>
pubVars == <<pAddress, pValueKey, pValue, pBrokerOK, pRes>>
codecVars == <<cPV, cPayload, cEnc, cDec>>
callVars == <<pubCall>>
concVars == <<cFrame, cCalls, cAttempts, cForwards>>
vars == <<cfgVars, srvVars, chainVars, pubVars, codecVars, callVars, concVars>>

Listeners == {"plain", "secure"}

\* the address configured for a listener
AddrOf(l) == IF l = "plain" THEN Addr ELSE AddrTLS

\* the message a listener sends to ServeErr: fmt.Errorf("Running MQTT server
\* failed: %v", err) or fmt.Errorf("Running Secure MQTT server failed: %v", err)
\* variant: both goroutines send the message of the plain listener
ErrMsgSameTag(l, e) == [from |-> "plain", err |-> e]

ErrMsg(l, e) == [from |-> l, err |-> e]

\* an element that was in the channel before Start (a channel that is already full)
PriorMsg == [from |-> "prior", err |-> "prior"]


(***************************************************************************)
(* Initial state of the Server part: a Server value as the caller built    *)
(* it, Start not yet called.                                               *)
(***************************************************************************)
ServeErrChoices ==
    {[isNil |-> TRUE, cap |-> 0]} \cup {[isNil |-> FALSE, cap |-> c] : c \in 0..MaxChanCap}

TaskInit == [l \in Listeners |-> [pc |-> "none", err |-> "nil", dones |-> 0]]

InitServer ==
    /\ Addr \in {"", ":1883"}
    /\ AddrTLS \in {"", ":8883"}
    /\ certValid \in BOOLEAN
    /\ ServeErr \in ServeErrChoices
    /\ consumer \in (IF ServeErr.isNil THEN {FALSE} ELSE BOOLEAN)
    /\ chanBuf \in {<<>>, [i \in 1..ServeErr.cap |-> PriorMsg]}
    /\ received = <<>>
    /\ server = "nil"
    /\ doneServer = 0
    /\ pcMain = "idle"
    /\ task = TaskInit

\* the Server part at rest, for the specifications of the other parts
ServerAtRest ==
    /\ Addr = "" /\ AddrTLS = "" /\ certValid = TRUE
    /\ ServeErr = [isNil |-> TRUE, cap |-> 0] /\ consumer = FALSE
    /\ chanBuf = <<>> /\ received = <<>> /\ server = "nil"
    /\ doneServer = 0 /\ pcMain = "idle" /\ task = TaskInit

(***************************************************************************)
(* Server.Start                                                            *)
(***************************************************************************)
\* where a spawned listener goroutine begins: the plain one at the call of
\* ListenAndServe, the secure one at tls.LoadX509KeyPair
SpawnPc(l) == IF l = "plain" THEN "listen" ELSE "load"

\* variant: the counter is incremented for a listener without address too
SpawnAddsAlways(l) ==
    /\ doneServer' = doneServer + 1
    /\ IF AddrOf(l) # ""
       THEN task' = [task EXCEPT ![l].pc = SpawnPc(l)]
       ELSE UNCHANGED task

\* if b.Addr != "" { b.doneServer.Add(1); go func() {...}() }
Spawn(l) ==
    IF AddrOf(l) # ""
    THEN /\ doneServer' = doneServer + 1
         /\ task' = [task EXCEPT ![l].pc = SpawnPc(l)]
    ELSE UNCHANGED <<doneServer, task>>

\* Start, first half: b.server = &service.Server{...}, then the plain listener
StartPlain ==
    /\ pcMain = "idle"
    /\ server' = "open"
    /\ Spawn("plain")
    /\ pcMain' = "start67"
    /\ UNCHANGED <<cfgVars, chanBuf, received, chainVars, pubVars, codecVars, callVars, concVars>>

\* variant: Start goes on only when the plain listener has left its bind
StartSecureAfterBind ==
    /\ pcMain = "start67"
    /\ task["plain"].pc # "listen"
    /\ Spawn("secure")
    /\ pcMain' = "started"
    /\ UNCHANGED <<cfgVars, chanBuf, received, server, chainVars, pubVars, codecVars, callVars, concVars>>

\* Start, second half: the secure listener, then Start returns
StartSecure ==
    /\ pcMain = "start67"
    /\ Spawn("secure")
    /\ pcMain' = "started"
    /\ UNCHANGED <<cfgVars, chanBuf, received, server, chainVars, pubVars, codecVars, callVars, concVars>>

(***************************************************************************)
(* Server.Stop                                                             *)
(***************************************************************************)
\* _ = b.server.Close(): a call through the pointer b.server, which is nil
\* until Start has assigned it; Close() on the nil pointer dereferences it
\* and the goroutine panics
StopClose ==
    /\ pcMain \in {"idle", "started"}
    /\ IF server = "nil"
       THEN pcMain' = "panic" /\ UNCHANGED server
       ELSE server' = "closed" /\ pcMain' = "stopWait"
    /\ UNCHANGED <<cfgVars, chanBuf, received, doneServer, task, chainVars, pubVars, codecVars, callVars, concVars>>

\* b.doneServer.Wait() returns when the counter is zero
\* variant: Stop does not wait
WaitReturnsNoWait(n) == TRUE

\* variant: Wait returns while one listener is still counted
WaitReturnsAtOne(n) == n <= 1

WaitReturns(n) == n = 0

StopWait ==
    /\ pcMain = "stopWait"
    /\ WaitReturns(doneServer)
    /\ pcMain' = "stopped"
    /\ UNCHANGED <<cfgVars, chanBuf, received, server, doneServer, task, chainVars, pubVars, codecVars, callVars, concVars>>

(***************************************************************************)
(* The listener goroutines                                                 *)
(***************************************************************************)
\* cer, err := tls.LoadX509KeyPair(...); if err != nil {...; return}
\* variant: the error of LoadX509KeyPair is ignored
AfterLoadIgnoringErr(ok) == "listen"

AfterLoad(ok) == IF ok THEN "listen" ELSE "certfail"

LoadCert(l) ==
    /\ l = "secure"
    /\ task[l].pc = "load"
    /\ task' = [task EXCEPT ![l].pc = AfterLoad(certValid),
                            ![l].err = IF AfterLoad(certValid) = "certfail" THEN "cert" ELSE "nil"]
    /\ UNCHANGED <<cfgVars, chanBuf, received, server, doneServer, pcMain, chainVars, pubVars, codecVars, callVars, concVars>>

\* The call b.server.ListenAndServe(addr) / ListenAndServeTLS(addr, config) of
\* the broker library: the bind fails, or succeeds and the call serves.
\* Start returns before the goroutine makes the call, so Stop's Close() can
\* come first. What the library does with a serve call begun on a broker
\* that was closed already is written neither in mqtt.go nor in the design,
\* so every outcome is possible: the call returns at once, with nil or with
\* an error, or it binds and serves ("servingLate") with no Close() left to
\* end it, or its bind fails.
ListenOutcomes(srv) ==
    IF srv = "open"
    THEN {[pc |-> "serving", err |-> "nil"], [pc |-> "down", err |-> "bind"]}
    ELSE {[pc |-> "servingLate", err |-> "nil"], [pc |-> "down", err |-> "bind"],
          [pc |-> "down", err |-> "nil"], [pc |-> "down", err |-> "closed"]}

Listen(l) ==
    /\ task[l].pc = "listen"
    /\ \E o \in ListenOutcomes(server) :
          task' = [task EXCEPT ![l].pc = o.pc, ![l].err = o.err]
    /\ UNCHANGED <<cfgVars, chanBuf, received, server, doneServer, pcMain, chainVars, pubVars, codecVars, callVars, concVars>>

\* the serve call returns nil because Close() ended it: a call that was
\* serving when Close() was made
ServeClosed(l) ==
    /\ task[l].pc = "serving"
    /\ server = "closed"
    /\ task' = [task EXCEPT ![l].pc = "down", ![l].err = "nil"]
    /\ UNCHANGED <<cfgVars, chanBuf, received, server, doneServer, pcMain, chainVars, pubVars, codecVars, callVars, concVars>>

\* the serve call returns an error of the transport that Close() did not cause
ServeFail(l) ==
    /\ \/ task[l].pc = "serving" /\ server = "open"
       \/ task[l].pc = "servingLate"
    /\ task' = [task EXCEPT ![l].pc = "down", ![l].err = "serve"]
    /\ UNCHANGED <<cfgVars, chanBuf, received, server, doneServer, pcMain, chainVars, pubVars, codecVars, callVars, concVars>>

\* variant: the error is sent without the test of ServeErr
AfterDoneNoNilTest(err) == IF err # "nil" THEN "send" ELSE "exit"

\* variant: the result of the serve call is reported also when it is nil
AfterDoneAlways(err) == IF ~ServeErr.isNil THEN "send" ELSE "exit"

\* after b.doneServer.Done(): if err != nil { if b.ServeErr != nil { b.ServeErr <- ... } }
AfterDone(err) == IF err # "nil" /\ ~ServeErr.isNil THEN "send" ELSE "exit"

\* b.doneServer.Done() on each path, followed by the error check
\* variant: Done() is missing on the path of the certificate error
SignalDownNotOnCertPath(l) ==
    /\ task[l].pc \in {"down", "certfail"}
    /\ doneServer' = IF task[l].pc = "certfail" THEN doneServer ELSE doneServer - 1
    /\ task' = [task EXCEPT ![l].pc = AfterDone(task[l].err),
                            ![l].dones = IF task[l].pc = "certfail" THEN @ ELSE @ + 1]
    /\ UNCHANGED <<cfgVars, chanBuf, received, server, pcMain, chainVars, pubVars, codecVars, callVars, concVars>>

\* variant: Done() is deferred until after the report of the error
SignalDownAfterReport(l) ==
    /\ task[l].pc \in {"down", "certfail"}
    /\ IF AfterDone(task[l].err) = "send"
       THEN /\ task' = [task EXCEPT ![l].pc = "send"]
            /\ UNCHANGED doneServer
       ELSE /\ doneServer' = doneServer - 1
            /\ task' = [task EXCEPT ![l].pc = "exit", ![l].dones = @ + 1]
    /\ UNCHANGED <<cfgVars, chanBuf, received, server, pcMain, chainVars, pubVars, codecVars, callVars, concVars>>

SignalDown(l) ==
    /\ task[l].pc \in {"down", "certfail"}
    /\ doneServer' = doneServer - 1
    /\ task' = [task EXCEPT ![l].pc = AfterDone(task[l].err), ![l].dones = @ + 1]
    /\ UNCHANGED <<cfgVars, chanBuf, received, server, pcMain, chainVars, pubVars, codecVars, callVars, concVars>>

\* an element as the consumer receives it, with whether Stop had returned by then
Delivery(m) == [from |-> m.from, err |-> m.err, afterStop |-> (pcMain = "stopped")]

\* b.ServeErr <- fmt.Errorf(...): a channel send. On an unbuffered channel it
\* completes when a receiver takes the value; on a buffered one when there is room.
\* variant: a send that gives up when it cannot complete at once
SendErrOrDrop(l) ==
    /\ task[l].pc = "send"
    /\ IF ServeErr.cap = 0
       THEN IF consumer
            THEN received' = Append(received, Delivery(ErrMsg(l, task[l].err))) /\ UNCHANGED chanBuf
            ELSE UNCHANGED <<received, chanBuf>>
       ELSE IF Len(chanBuf) < ServeErr.cap
            THEN chanBuf' = Append(chanBuf, ErrMsg(l, task[l].err)) /\ UNCHANGED received
            ELSE UNCHANGED <<received, chanBuf>>
    /\ task' = [task EXCEPT ![l].pc = "exit"]
    /\ UNCHANGED <<cfgVars, server, doneServer, pcMain, chainVars, pubVars, codecVars, callVars, concVars>>

SendErr(l) ==
    /\ task[l].pc = "send"
    /\ IF ServeErr.cap = 0
       THEN /\ consumer
            /\ received' = Append(received, Delivery(ErrMsg(l, task[l].err)))
            /\ UNCHANGED chanBuf
       ELSE /\ Len(chanBuf) < ServeErr.cap
            /\ chanBuf' = Append(chanBuf, ErrMsg(l, task[l].err))
            /\ UNCHANGED received
    /\ task' = [task EXCEPT ![l].pc = "exit"]
    /\ UNCHANGED <<cfgVars, server, doneServer, pcMain, chainVars, pubVars, codecVars, callVars, concVars>>

\* the caller's consumer receives the next buffered element of ServeErr
Receive ==
    /\ consumer
    /\ chanBuf # <<>>
    /\ received' = Append(received, Delivery(Head(chanBuf)))
    /\ chanBuf' = Tail(chanBuf)
    /\ UNCHANGED <<cfgVars, server, doneServer, pcMain, task, chainVars, pubVars, codecVars, callVars, concVars>>

\* the steps a listener goroutine takes by itself
TaskProgress(l) ==
    LoadCert(l) \/ Listen(l) \/ ServeClosed(l) \/ SignalDown(l) \/ SendErr(l)

TaskStep(l) == TaskProgress(l) \/ ServeFail(l)

NextServer ==
    \/ StartPlain
    \/ StartSecure
    \/ StopClose
    \/ StopWait
    \/ \E l \in Listeners : LoadCert(l)
    \/ \E l \in Listeners : Listen(l)
    \/ \E l \in Listeners : ServeClosed(l)
    \/ \E l \in Listeners : ServeFail(l)
    \/ \E l \in Listeners : SignalDown(l)
    \/ \E l \in Listeners : SendErr(l)
    \/ Receive


(***************************************************************************)
(* Strings: a Go string is a sequence of one-character strings             *)
(***************************************************************************)
SeqsUpTo(S, n) == UNION {[1..k -> S] : k \in 0..n}

Range(s) == {s[i] : i \in 1..Len(s)}

\* Go's s[lo:hi], with 0-based bounds
Slice(s, lo, hi) == SubSeq(s, lo + 1, hi)

\* strings.IndexRune(s, c): 0-based index of the first c in s, or -1
RECURSIVE IndexFrom(_, _, _)
IndexFrom(s, c, i) ==
    IF i > Len(s) THEN -1
    ELSE IF s[i] = c THEN i - 1
    ELSE IndexFrom(s, c, i + 1)

\* variant: strings.LastIndex
RECURSIVE LastIndexFrom(_, _, _)
LastIndexFrom(s, c, i) ==
    IF i < 1 THEN -1
    ELSE IF s[i] = c THEN i - 1
    ELSE LastIndexFrom(s, c, i - 1)

LastIndexRune(s, c) == LastIndexFrom(s, c, Len(s))

IndexRune(s, c) == IndexFrom(s, c, 1)

\* strings.HasPrefix(s, prefix)
HasPrefix(s, prefix) ==
    /\ Len(s) >= Len(prefix)
    /\ \A i \in 1..Len(prefix) : s[i] = prefix[i]

\* fmt.Sprintf("%s/%s/%s/%s", a, b, c, d)
\* variant: channel and device in the other order
Sprintf4Swapped(a, b, c, d) == a \o <<"/">> \o c \o <<"/">> \o b \o <<"/">> \o d

Sprintf4(a, b, c, d) == a \o <<"/">> \o b \o <<"/">> \o c \o <<"/">> \o d

INSTALL_TEST == <<"I","N","S","T","A","L","L","_","T","E","S","T">>
PRESS_ == <<"P","R","E","S","S","_">>

\* the constant deviceStatusTopic of package mqtt (README: device/status/...)
deviceStatusTopic == <<"d","e","v","i","c","e","/","s","t","a","t","u","s">>

(***************************************************************************)
(* Inputs                                                                  *)
(***************************************************************************)
AddrChars == {"A", ":", "#"}

\* the addresses of the documented examples: AABB1234:3 and ABC123:1
ExampleAddresses ==
    { <<"A","A","B","B","1","2","3","4",":","3">>,
      <<"A","B","C","1","2","3",":","1">> }

Addresses == SeqsUpTo(AddrChars, MaxAddrLen) \cup ExampleAddresses

ValueKeys ==
    { INSTALL_TEST,
      INSTALL_TEST \o <<"2">>,
      <<"I","N","S","T","A","L","L">>,
      PRESS_,
      PRESS_ \o <<"S","H","O","R","T">>,
      <<"P","R","E","S","S">>,
      <<"X">> \o PRESS_,
      <<"S","T","A","T","E">>,
      <<"L","E","V","E","L">>,
      <<>> }

\* values an event carries (interface{}); a NaN float has no JSON encoding
Values ==
    { [kind |-> "bool", repr |-> "true"],
      [kind |-> "number", repr |-> "42.5"],
      [kind |-> "string", repr |-> "abc"],
      [kind |-> "null", repr |-> "null"],
      [kind |-> "nan", repr |-> "NaN"] }

\* instants time.Now() may return, in nanoseconds since the epoch
Clock == {1234567, 2000000}

(***************************************************************************)
(* Wire encoding and Server.Publish / Server.PublishPV                     *)
(***************************************************************************)
\* veap.StateGood
StateGood == 0

\* nanoseconds per millisecond: pv.Time.UnixNano() / 1000000
NanosPerMilli == 1000000

\* message.QosAtLeastOnce, message.QosExactlyOnce
QosAtLeastOnce == 1
QosExactlyOnce == 2

\* Go's integer division, which truncates toward zero (b > 0)
GoDiv(a, b) == IF a >= 0 THEN a \div b ELSE -((-a) \div b)

\* variant: every value is taken to have an encoding
EncodableAlways(v) == TRUE

\* json.Marshal fails for a value without JSON encoding
Encodable(v) == v.kind # "nan"

\* variant: the timestamp is put on the wire in nanoseconds
pvToWireNanos(pv) ==
    IF Encodable(pv.Value)
    THEN [err |-> "nil", pl |-> [ts |-> pv.Time, v |-> pv.Value, s |-> pv.State]]
    ELSE [err |-> "encoding", pl |-> [ts |-> 0, v |-> pv.Value, s |-> pv.State]]

\* pvToWire: the wirePV {ts, v, s} of a PV, or the error of json.Marshal
pvToWire(pv) ==
    IF Encodable(pv.Value)
    THEN [err |-> "nil", pl |-> [ts |-> GoDiv(pv.Time, NanosPerMilli), v |-> pv.Value, s |-> pv.State]]
    ELSE [err |-> "encoding", pl |-> [ts |-> 0, v |-> pv.Value, s |-> pv.State]]

\* pm.SetTopic: a topic is not empty and holds no wildcard
ValidTopic(topic) == Len(topic) > 0 /\ "#" \notin Range(topic) /\ "+" \notin Range(topic)

\* pm.SetQoS: 0, 1 or 2
ValidQoS(qos) == qos \in {0, 1, 2}

\* Server.Publish: [err, pubs], pubs the messages submitted to the broker;
\* brokerOK is the outcome of b.server.Publish(pm)
Publish(topic, payload, qos, retain, brokerOK) ==
    IF ~ValidTopic(topic) THEN [err |-> "topic", pubs |-> <<>>]
    ELSE IF ~ValidQoS(qos) THEN [err |-> "qos", pubs |-> <<>>]
    ELSE IF ~brokerOK THEN [err |-> "publish", pubs |-> <<>>]
    ELSE [err |-> "nil",
          pubs |-> <<[topic |-> topic, payload |-> payload, qos |-> qos, retain |-> retain]>>]

\* Server.PublishPV
PublishPV(topic, pv, qos, retain, brokerOK) ==
    LET w == pvToWire(pv) IN
    IF w.err # "nil" THEN [err |-> w.err, pubs |-> <<>>]
    ELSE Publish(topic, w.pl, qos, retain, brokerOK)

(***************************************************************************)
(* EventReceiver.publishEvent                                              *)
(***************************************************************************)
\* position of the separator between device and channel
\* variant: split at the last separator
SeparatorLast(address) == LastIndexRune(address, ":")

\* variant: an address without separator is taken as a device without channel
SeparatorOrZero(address) ==
    IF IndexRune(address, ":") = -1 THEN 0 ELSE IndexRune(address, ":")

Separator(address) == IndexRune(address, ":")

\* select qos and retain
Retain(valueKey) == valueKey # INSTALL_TEST /\ ~HasPrefix(valueKey, PRESS_)

\* variant: the PRESS_ prefix is not tested
QosOnlyInstallTest(valueKey) ==
    IF valueKey # INSTALL_TEST THEN QosAtLeastOnce ELSE QosExactlyOnce

Qos(valueKey) ==
    IF valueKey # INSTALL_TEST /\ ~HasPrefix(valueKey, PRESS_)
    THEN QosAtLeastOnce
    ELSE QosExactlyOnce

publishEvent(address, valueKey, value, now, brokerOK) ==
    LET p == Separator(address) IN
    IF p = -1 THEN [err |-> "address", pubs |-> <<>>]
    ELSE LET dev == Slice(address, 0, p)
             ch == Slice(address, p + 1, Len(address))
             topic == Sprintf4(deviceStatusTopic, dev, ch, valueKey)
             pv == [Time |-> now, Value |-> value, State |-> StateGood]
         IN PublishPV(topic, pv, Qos(valueKey), Retain(valueKey), brokerOK)

(***************************************************************************)
(* publishEvent applied to one drawn input                                 *)
(***************************************************************************)
PendingRes == [done |-> FALSE, now |-> 0, err |-> "none", pubs |-> <<>>]

InitPublish ==
    /\ pAddress \in Addresses
    /\ pValueKey \in ValueKeys
    /\ pValue \in Values
    /\ pBrokerOK \in BOOLEAN
    /\ pRes = PendingRes

PublishAtRest ==
    /\ pAddress = <<>> /\ pValueKey = <<>>
    /\ pValue = [kind |-> "null", repr |-> "null"]
    /\ pBrokerOK = TRUE /\ pRes = PendingRes

ApplyPublishEvent ==
    /\ ~pRes.done
    /\ \E now \in Clock :
          LET r == publishEvent(pAddress, pValueKey, pValue, now, pBrokerOK)
          IN pRes' = [done |-> TRUE, now |-> now, err |-> r.err, pubs |-> r.pubs]
    /\ UNCHANGED <<pAddress, pValueKey, pValue, pBrokerOK, cfgVars, srvVars, chainVars,
                   codecVars, callVars, concVars>>

NextPublish == ApplyPublishEvent


(***************************************************************************)
(* Calls of the application on the Server between Start and Stop, before   *)
(* Start and after Stop: Publish, PublishPV, and Event of an EventReceiver *)
(* whose Server it is                                                      *)
(***************************************************************************)
\* b.server.Publish(pm): a call through the pointer b.server. Until Start has
\* assigned it the pointer is nil and the call panics; on a broker (serving
\* or closed) the broker library accepts the message or returns an error.
BrokerPublishOutcomes(srv) == IF srv = "nil" THEN {"panic"} ELSE {"nil", "publish"}

\* the result r of a call computed for a broker that does not accept, when
\* the outcome of b.server.Publish(pm) is o: the call panics if it got as
\* far as b.server.Publish(pm)
OnServer(r, o) ==
    IF o = "panic" /\ r.err = "publish" THEN [err |-> "panic", pubs |-> <<>>] ELSE r

\* Server.Publish, Server.PublishPV and publishEvent on the Server
PublishOn(topic, payload, qos, retain, o) ==
    OnServer(Publish(topic, payload, qos, retain, o = "nil"), o)

PublishPVOn(topic, pv, qos, retain, o) ==
    OnServer(PublishPV(topic, pv, qos, retain, o = "nil"), o)

publishEventOn(address, valueKey, value, now, o) ==
    OnServer(publishEvent(address, valueKey, value, now, o = "nil"), o)

\* arguments of the calls
CallTopics == {<<"a", "/", "b">>, <<"a", "/", "#">>}
CallQos == {1, 3}
CallPayloads == {<<"o", "n">>}
\* the retain flag is drawn both ways for the calls that get as far as the
\* message; a call that fails a test before it never reads the flag
CallRetains(topic, qos) == IF ValidTopic(topic) /\ ValidQoS(qos) THEN BOOLEAN ELSE {FALSE}
CallPVs ==
    {[Time |-> 1234567, Value |-> v, State |-> StateGood] :
        v \in {[kind |-> "number", repr |-> "42.5"], [kind |-> "nan", repr |-> "NaN"]}}
CallAddresses == {<<"A", ":", "A">>, <<"A">>}
CallClock == {1234567}

NoPubCall ==
    [kind |-> "none", args |-> <<>>, srv |-> "nil", err |-> "none", pubs |-> <<>>,
     logged |-> FALSE, fwd |-> <<>>, ret |-> "none"]

\* no call yet
CallAtRest == pubCall = NoPubCall

\* the goroutine that calls Start and Stop is between two calls
BetweenCalls == pcMain \in {"idle", "started", "stopped"}

\* the outcome of Publish or PublishPV: the call returns its error, logs
\* nothing and calls no Next
Returned(r) ==
    [err |-> r.err, pubs |-> r.pubs, logged |-> FALSE, fwd |-> <<>>, ret |-> r.err]

\* a call returned or panicked
Called(kind, args, r) ==
    /\ pubCall' = [kind |-> kind, args |-> args, srv |-> server, err |-> r.err, pubs |-> r.pubs,
                   logged |-> r.logged, fwd |-> r.fwd, ret |-> r.ret]
    /\ pcMain' = IF r.ret = "panic" THEN "panic" ELSE pcMain
    /\ UNCHANGED <<cfgVars, chanBuf, received, server, doneServer, task, chainVars,
                   pubVars, codecVars, concVars>>

CallPublish ==
    /\ BetweenCalls
    /\ \E topic \in CallTopics, payload \in CallPayloads, qos \in CallQos,
          o \in BrokerPublishOutcomes(server) :
       \E retain \in CallRetains(topic, qos) :
          Called("Publish",
                 [topic |-> topic, payload |-> payload, qos |-> qos, retain |-> retain],
                 Returned(PublishOn(topic, payload, qos, retain, o)))

CallPublishPV ==
    /\ BetweenCalls
    /\ \E topic \in {<<"a", "/", "b">>}, pv \in CallPVs, o \in BrokerPublishOutcomes(server) :
          Called("PublishPV",
                 [topic |-> topic, pv |-> pv, qos |-> QosAtLeastOnce, retain |-> TRUE],
                 Returned(PublishPVOn(topic, pv, QosAtLeastOnce, TRUE, o)))

\* CallEvent, the call of EventReceiver.Event, is defined with the handlers
\* of the chain below: it logs, forwards and returns as they do.

(***************************************************************************)
(* The chain of EventReceiver handlers. Handler h (1..ChainLen) is an      *)
(* EventReceiver whose Next is handler h+1; handler ChainLen+1 is the      *)
(* final itf.LogicLayer, which only returns a result.                      *)
(***************************************************************************)
Handlers == 1..ChainLen

Final == ChainLen + 1

NullValue == [kind |-> "null", repr |-> "null"]

Note(kind, address, valueKey, value) ==
    [kind |-> kind, address |-> address, valueKey |-> valueKey, value |-> value]

NoNote == Note("none", <<>>, <<>>, NullValue)

KeyState == <<"S","T","A","T","E">>

\* the notifications the event source may deliver
EventNotes ==
    { Note("Event", <<"A", ":", "A">>, KeyState, [kind |-> "bool", repr |-> "true"]),
      Note("Event", <<"A">>, KeyState, [kind |-> "number", repr |-> "42.5"]),
      Note("Event", <<"#", ":", "A">>, KeyState, [kind |-> "string", repr |-> "abc"]),
      Note("Event", <<"A", ":", "A">>, PRESS_, [kind |-> "nan", repr |-> "NaN"]),
      Note("Event", <<"A","B","C","1","2","3",":","1">>, <<"L","E","V","E","L">>,
           [kind |-> "number", repr |-> "42.5"]) }

RelayKinds == {"NewDevices", "DeleteDevices", "UpdateDevice", "ReplaceDevice", "ReaddedDevice"}

RelayNotes == {Note(k, <<"A">>, <<>>, NullValue) : k \in RelayKinds}

Notes == EventNotes \cup RelayNotes

\* results the final receiver may return
NextResults == {"nil", "nextErr"}

\* time.Now() inside the chain
ChainClock == {1234567}

NoCall ==
    [pubErr |-> "none", logged |-> FALSE, forwards |-> 0, fwd |-> NoNote,
     nextRet |-> "none", ret |-> "none"]

InitChain ==
    /\ fed = <<>>
    /\ cur = NoNote
    /\ hop = 0
    /\ dir = "idle"
    /\ retv = "none"
    /\ observed = [h \in 1..Final |-> <<>>]
    /\ callLog = [h \in Handlers |-> NoCall]
    /\ published = [h \in Handlers |-> <<>>]
    /\ attempts = [h \in Handlers |-> <<>>]

\* the event source calls the first handler; it calls again only after the
\* previous call has returned
Deliver(n) ==
    /\ hop = 0
    /\ Len(fed) < MaxEvents
    /\ fed' = Append(fed, n)
    /\ cur' = n
    /\ hop' = 1
    /\ dir' = "call"
    /\ retv' = "none"
    /\ observed' = [observed EXCEPT ![1] = Append(@, n)]
    /\ callLog' = [h \in Handlers |-> NoCall]
    /\ UNCHANGED <<published, attempts, cfgVars, srvVars, pubVars, codecVars, callVars, concVars>>

\* EventReceiver.Event after publishEvent returned pubErr: the error is only
\* logged and the event is forwarded
\* variant: Event returns early when the publish failed
ForwardsOnlyOnSuccess(pubErr) == pubErr = "nil"

Forwards(pubErr) == TRUE

\* if err != nil { log.Errorf("Publish of event failed: %v", err) }
Logged(pubErr) == pubErr \notin {"nil", "none"}

\* the value Event returns: return r.Next.Event(...)
\* variant: Event returns the publish error when there is one
ReturnsPublishErr(pubErr, nextRet) == IF pubErr \notin {"nil", "none"} THEN pubErr ELSE nextRet

Returns(pubErr, nextRet) == nextRet

\* EventReceiver.Event as a whole, for the outcome o of b.server.Publish(pm)
\* and the result next of r.Next.Event: publishEvent; its error is logged;
\* then return r.Next.Event(...) with the arguments of the call. A panic
\* inside publishEvent ends the call before Next is reached. The receiver
\* has its Server and its Next, the two fields an EventReceiver is built
\* with, as the handlers of the chain have.
EventOn(args, value, o, next) ==
    LET p == publishEventOn(args.address, args.valueKey, value, args.now, o)
    IN IF p.err = "panic"
       THEN [err |-> "panic", pubs |-> <<>>, logged |-> FALSE, fwd |-> <<>>, ret |-> "panic"]
       ELSE IF ~Forwards(p.err)
       THEN [err |-> p.err, pubs |-> p.pubs, logged |-> Logged(p.err), fwd |-> <<>>,
             ret |-> p.err]
       ELSE [err |-> p.err, pubs |-> p.pubs, logged |-> Logged(p.err),
             fwd |-> <<[address |-> args.address, valueKey |-> args.valueKey, value |-> value]>>,
             ret |-> Returns(p.err, next)]

\* the application calls Event of an EventReceiver of the Server
CallEvent ==
    /\ BetweenCalls
    /\ \E address \in CallAddresses, now \in CallClock, o \in BrokerPublishOutcomes(server),
          next \in NextResults :
          LET args == [address |-> address, valueKey |-> <<"L","E","V","E","L">>, now |-> now]
          IN Called("Event", args,
                    EventOn(args, [kind |-> "number", repr |-> "42.5"], o, next))

NextCalls == CallPublish \/ CallPublishPV \/ CallEvent

\* what handler h does with the notification before calling Next: publishEvent
\* for a value change, nothing for the other notifications
\* variant: after an address error the receiver publishes nothing any more
LocalPublishPoisoned(n, now, brokerOK) ==
    IF n.kind = "Event"
    THEN IF \E i \in 1..(Len(fed) - 1) :
                fed[i].kind = "Event" /\ IndexRune(fed[i].address, ":") = -1
         THEN [err |-> "address", pubs |-> <<>>]
         ELSE publishEvent(n.address, n.valueKey, n.value, now, brokerOK)
    ELSE [err |-> "none", pubs |-> <<>>]

\* variant: every notification is translated, whatever its kind
LocalPublishAll(n, now, brokerOK) ==
    publishEvent(<<"A", ":", "A">>, n.valueKey, n.value, now, brokerOK)

\* variant: the receiver publishes an event when the next one arrives
LocalPublishDeferred(n, now, brokerOK) ==
    IF n.kind = "Event"
    THEN IF Len(fed) >= 2 /\ fed[Len(fed) - 1].kind = "Event"
         THEN publishEvent(fed[Len(fed) - 1].address, fed[Len(fed) - 1].valueKey,
                           fed[Len(fed) - 1].value, now, brokerOK)
         ELSE [err |-> "nil", pubs |-> <<>>]
    ELSE [err |-> "none", pubs |-> <<>>]

LocalPublish(n, now, brokerOK) ==
    IF n.kind = "Event"
    THEN publishEvent(n.address, n.valueKey, n.value, now, brokerOK)
    ELSE [err |-> "none", pubs |-> <<>>]

\* handler h runs its method up to and including the call of Next
Handle(h) ==
    /\ hop = h
    /\ dir = "call"
    /\ \E now \in ChainClock, brokerOK \in BOOLEAN :
          LET r == LocalPublish(cur, now, brokerOK) IN
          /\ published' = [published EXCEPT ![h] = @ \o r.pubs]
          /\ attempts' = [attempts EXCEPT ![h] =
                Append(@, [note |-> cur, now |-> now, brokerOK |-> brokerOK,
                           err |-> r.err, pubs |-> r.pubs])]
          /\ IF Forwards(r.err)
             THEN /\ observed' = [observed EXCEPT ![h + 1] = Append(@, cur)]
                  /\ callLog' = [callLog EXCEPT ![h].pubErr = r.err,
                                                ![h].logged = Logged(r.err),
                                                ![h].forwards = @ + 1,
                                                ![h].fwd = cur]
                  /\ hop' = h + 1
                  /\ UNCHANGED <<dir, retv>>
             ELSE /\ callLog' = [callLog EXCEPT ![h].pubErr = r.err,
                                                ![h].logged = Logged(r.err),
                                                ![h].ret = r.err]
                  /\ retv' = r.err
                  /\ dir' = "ret"
                  /\ hop' = h - 1
                  /\ UNCHANGED observed
    /\ UNCHANGED <<fed, cur, cfgVars, srvVars, pubVars, codecVars, callVars, concVars>>

\* the final receiver returns its result
FinalReturn ==
    /\ hop = Final
    /\ dir = "call"
    /\ \E r \in NextResults : retv' = r
    /\ dir' = "ret"
    /\ hop' = ChainLen
    /\ UNCHANGED <<fed, cur, observed, callLog, published, attempts, cfgVars, srvVars, pubVars, codecVars, callVars, concVars>>

\* the call of Next has returned to handler h, which returns in turn
Return(h) ==
    /\ hop = h
    /\ dir = "ret"
    /\ LET v == Returns(callLog[h].pubErr, retv) IN
          /\ callLog' = [callLog EXCEPT ![h].nextRet = retv, ![h].ret = v]
          /\ retv' = v
    /\ hop' = h - 1
    /\ UNCHANGED <<dir, fed, cur, observed, published, attempts, cfgVars, srvVars, pubVars, codecVars, callVars, concVars>>

NextChain ==
    \/ \E n \in Notes : Deliver(n)
    \/ \E h \in Handlers : Handle(h)
    \/ FinalReturn
    \/ \E h \in Handlers : Return(h)

(***************************************************************************)
(* Two independent sources call Event on the same EventReceiver, each on   *)
(* its own goroutine. A call is at "publish" before r.publishEvent(...),   *)
(* at "forward" before r.Next.Event(...). The arguments of a call are      *)
(* parameters of Event, local to the call; the EventReceiver itself has    *)
(* only the fields Server and Next, which Event reads.                     *)
(***************************************************************************)
Sources == {"local", "bridge"}

\* the events the concurrent sources may deliver
ConcNotes ==
    { Note("Event", <<"A", ":", "A">>, KeyState, [kind |-> "bool", repr |-> "true"]),
      Note("Event", <<"A","B","C","1","2","3",":","1">>, <<"L","E","V","E","L">>,
           [kind |-> "number", repr |-> "42.5"]),
      Note("Event", <<"A">>, KeyState, [kind |-> "number", repr |-> "42.5"]) }

InitConc ==
    /\ cFrame = [s \in Sources |-> [pc |-> "idle", note |-> NoNote]]
    /\ cCalls = <<>>
    /\ cAttempts = <<>>
    /\ cForwards = <<>>

ConcAtRest == InitConc

\* the arguments publishEvent and Next.Event are called with in the call of
\* source s: the parameters of that call
\* variant: the arguments are kept in the receiver, shared by all calls
ConcArgsShared(s) == cCalls[Len(cCalls)].note

ConcArgs(s) == cFrame[s].note

\* source s calls Event(interfaceID, address, valueKey, value); a source
\* calls again only after its previous call has returned
ConcCall(s, n) ==
    /\ cFrame[s].pc = "idle"
    /\ Len(cCalls) < MaxConcCalls
    /\ cFrame' = [cFrame EXCEPT ![s] = [pc |-> "publish", note |-> n]]
    /\ cCalls' = Append(cCalls, [src |-> s, note |-> n])
    /\ UNCHANGED <<cAttempts, cForwards, cfgVars, srvVars, chainVars, pubVars, codecVars,
                   callVars>>

\* if err := r.publishEvent(interfaceID, address, valueKey, value); err != nil {...}
ConcPublish(s) ==
    /\ cFrame[s].pc = "publish"
    /\ \E now \in ChainClock, brokerOK \in BOOLEAN :
          LET a == ConcArgs(s)
              r == publishEvent(a.address, a.valueKey, a.value, now, brokerOK)
          IN cAttempts' = Append(cAttempts, [src |-> s, note |-> a, err |-> r.err,
                                             pubs |-> r.pubs])
    /\ cFrame' = [cFrame EXCEPT ![s].pc = "forward"]
    /\ UNCHANGED <<cCalls, cForwards, cfgVars, srvVars, chainVars, pubVars, codecVars,
                   callVars>>

\* variant: the event is forwarded without waiting for publishEvent
ConcForwardEarly(s) ==
    /\ cFrame[s].pc \in {"publish", "forward"}
    /\ cForwards' = Append(cForwards, [src |-> s, note |-> ConcArgs(s)])
    /\ cFrame' = [cFrame EXCEPT ![s] = [pc |-> "idle", note |-> NoNote]]
    /\ UNCHANGED <<cCalls, cAttempts, cfgVars, srvVars, chainVars, pubVars, codecVars,
                   callVars>>

\* return r.Next.Event(interfaceID, address, valueKey, value)
ConcForward(s) ==
    /\ cFrame[s].pc = "forward"
    /\ cForwards' = Append(cForwards, [src |-> s, note |-> ConcArgs(s)])
    /\ cFrame' = [cFrame EXCEPT ![s] = [pc |-> "idle", note |-> NoNote]]
    /\ UNCHANGED <<cCalls, cAttempts, cfgVars, srvVars, chainVars, pubVars, codecVars,
                   callVars>>

NextConc ==
    \/ \E s \in Sources, n \in ConcNotes : ConcCall(s, n)
    \/ \E s \in Sources : ConcPublish(s)
    \/ \E s \in Sources : ConcForward(s)

(***************************************************************************)
(* JSON texts. A payload is a sequence of segments, each with its text:    *)
(* white space, the text of one JSON object with its members, the text of  *)
(* one other JSON value, or bytes that begin no JSON value.                *)
(***************************************************************************)
\* a JSON value: its kind, its text, whether strconv.ParseInt accepts the
\* text as an int64 and with which result, and the Go value json gives it in
\* an interface{}. The int64 is hi * 2^58 + n, with hi in -32..31.
JNull == [jt |-> "null", text |-> "null", isInt |-> FALSE, n |-> 0, hi |-> 0, go |-> NullValue]

JBool(t) == [jt |-> "bool", text |-> t, isInt |-> FALSE, n |-> 0, hi |-> 0,
             go |-> [kind |-> "bool", repr |-> t]]

JInt(n) == [jt |-> "num", text |-> ToString(n), isInt |-> TRUE, n |-> n, hi |-> 0,
            go |-> [kind |-> "number", repr |-> ToString(n)]]

\* an integer beyond 2^58, with its numeral
JInt64(hi, n, t) == [jt |-> "num", text |-> t, isInt |-> TRUE, n |-> n, hi |-> hi,
                     go |-> [kind |-> "number", repr |-> t]]

\* the float64 nearest to a number text: 2^53 + 1 is not a float64
Float64(t) == IF t = "9007199254740993" THEN "9007199254740992" ELSE t

\* a number that is not an integer of this model
JNumber(t) == [jt |-> "num", text |-> t, isInt |-> FALSE, n |-> 0, hi |-> 0,
               go |-> [kind |-> "number", repr |-> Float64(t)]]

JString(t) == [jt |-> "str", text |-> "\"" \o t \o "\"", isInt |-> FALSE, n |-> 0, hi |-> 0,
               go |-> [kind |-> "string", repr |-> t]]

\* an array or an object in the place of a value
JComposite(jt, t) == [jt |-> jt, text |-> t, isInt |-> FALSE, n |-> 0, hi |-> 0,
                      go |-> [kind |-> jt, repr |-> t]]

\* json.Marshal coerces a string to valid UTF-8: an invalid byte becomes U+FFFD
ValidUTF8(t) == IF t = "a<0xFF>" THEN "a<U+FFFD>" ELSE t

\* json.Marshal of the value of a PV
ToJSON(v) ==
    CASE v.kind = "null" -> JNull
      [] v.kind = "bool" -> JBool(v.repr)
      [] v.kind \in {"number", "int"} -> JNumber(v.repr)
      [] v.kind = "string" -> JString(ValidUTF8(v.repr))
      [] OTHER -> JComposite(v.kind, v.repr)

Member(k, j) == [k |-> k, j |-> j]

MemberText(m) == "\"" \o m.k \o "\":" \o m.j.text

RECURSIVE MembersText(_)
MembersText(ms) ==
    IF ms = <<>> THEN ""
    ELSE IF Len(ms) = 1 THEN MemberText(ms[1])
    ELSE MemberText(ms[1]) \o "," \o MembersText(Tail(ms))

\* n blanks
RECURSIVE Spaces(_)
Spaces(n) ==
    IF n <= 0 THEN ""
    ELSE LET h == Spaces(n \div 2) IN IF n % 2 = 0 THEN h \o h ELSE h \o h \o " "

WS(n) == [t |-> "ws", text |-> Spaces(n), members |-> <<>>, j |-> JNull]

Junk(text) == [t |-> "junk", text |-> text, members |-> <<>>, j |-> JNull]

Val(j) == [t |-> "val", text |-> j.text, members |-> <<>>, j |-> j]

Obj(ms) == [t |-> "obj", text |-> "{" \o MembersText(ms) \o "}", members |-> ms, j |-> JNull]

\* json.Marshal(w) of a wirePV: the members ts, v, s in the order of the struct
MarshalWire(w) ==
    <<Obj(<<Member("ts", JInt(w.ts)), Member("v", ToJSON(w.v)), Member("s", JInt(w.s))>>)>>

\* number of bytes of the first i segments
RECURSIVE BytesUpTo(_, _)
BytesUpTo(p, i) == IF i <= 0 THEN 0 ELSE Len(p[i].text) + BytesUpTo(p, i - 1)

\* string(payload)
RECURSIVE PayloadText(_)
PayloadText(p) == IF p = <<>> THEN "" ELSE Head(p).text \o PayloadText(Tail(p))

\* index of the first segment from i on that is not white space, or 0
RECURSIVE FirstNonSpace(_, _)
FirstNonSpace(p, i) ==
    IF i > Len(p) THEN 0
    ELSE IF p[i].t # "ws" THEN i
    ELSE FirstNonSpace(p, i + 1)

(***************************************************************************)
(* wireToPV                                                                *)
(***************************************************************************)
\* an int64 as hi * 2^58 + lo
Int64(hi, lo) == [hi |-> hi, lo |-> lo]

\* the zero wirePV
ZeroW == [Time |-> Int64(0, 0), Value |-> NullValue, State |-> 0]

\* the field of wirePV an object key selects: encoding/json prefers the exact
\* name of the tag and also accepts it in another case
FieldOf(k) ==
    CASE k \in {"ts", "TS", "Ts", "tS"} -> "ts"
      [] k \in {"v", "V"} -> "v"
      [] k \in {"s", "S"} -> "s"
      [] OTHER -> "unknown"

\* json decoding of the members of an object into a wirePV with
\* DisallowUnknownFields: an unknown key or a value of the wrong type is
\* recorded as the error (the first one is kept) and decoding goes on
RECURSIVE DecodeMembers(_, _, _)
DecodeMembers(ms, w, err) ==
    IF ms = <<>> THEN [err |-> err, w |-> w]
    ELSE LET m == Head(ms)
             f == FieldOf(m.k)
             first(e) == IF err = "nil" THEN e ELSE err
         IN CASE f = "unknown" -> DecodeMembers(Tail(ms), w, first("unknownField"))
              [] f = "v" -> DecodeMembers(Tail(ms), [w EXCEPT !.Value = m.j.go], err)
              [] m.j.jt = "null" -> DecodeMembers(Tail(ms), w, err)
              [] m.j.jt = "num" /\ m.j.isInt ->
                    DecodeMembers(Tail(ms),
                        IF f = "ts" THEN [w EXCEPT !.Time = Int64(m.j.hi, m.j.n)]
                                    ELSE [w EXCEPT !.State = m.j.n], err)
              [] OTHER -> DecodeMembers(Tail(ms), w, first("type"))

\* dec.Decode(&w): the decoder skips white space and reads one JSON value;
\* null leaves w as it is, an object is decoded member by member, any other
\* value does not fit a struct. at is the index of the segment read.
DecoderDecode(p) ==
    LET i == FirstNonSpace(p, 1) IN
    IF i = 0 THEN [err |-> "EOF", w |-> ZeroW, at |-> 0]
    ELSE CASE p[i].t = "junk" -> [err |-> "syntax", w |-> ZeroW, at |-> i]
           [] p[i].t = "val" ->
                [err |-> IF p[i].j.jt = "null" THEN "nil" ELSE "type", w |-> ZeroW, at |-> i]
           [] OTHER ->
                LET r == DecodeMembers(p[i].members, ZeroW, "nil")
                IN [err |-> r.err, w |-> r.w, at |-> i]

\* Decoder.refill reads at least this many bytes at a time
MinRead == 512

\* the number of bytes in the buffer of the decoder when it has seen `need`
\* bytes of `total`: it is filled to 512, 1536, 3584, ... bytes
RECURSIVE Filled(_, _, _)
Filled(fill, need, total) ==
    IF fill >= total THEN total
    ELSE IF fill >= need THEN fill
    ELSE Filled(2 * fill + MinRead, need, total)

\* the bytes the decoder needs to see the end of the value in segment i: an
\* object or array ends with its bracket, any other value with the byte
\* after it
Need(p, i) ==
    IF p[i].t = "obj" \/ p[i].j.jt \in {"arr", "obj"}
    THEN BytesUpTo(p, i)
    ELSE BytesUpTo(p, i) + 1

\* end of dec.Buffered(): what was read into the buffer, not the whole payload
BufferedEnd(p, i) == Filled(MinRead, Need(p, i), BytesUpTo(p, Len(p)))

\* len(strings.TrimSpace(string(c))) != 0 for the buffered bytes c
UnexpectedContent(p, i) ==
    \E k \in (i + 1)..Len(p) :
        p[k].t # "ws" /\ Len(p[k].text) > 0 /\ BytesUpTo(p, k - 1) < BufferedEnd(p, i)

\* ioutil.ReadAll(dec.Buffered()): reading from memory does not fail
\* variant: ReadAll fails when content is left
ReadAllErrOnContent(p, i) == IF BytesUpTo(p, i) < BytesUpTo(p, Len(p)) THEN "readAll" ELSE "nil"

ReadAllErr(p, i) == "nil"

\* json.Unmarshal(payload, &v): the payload is one JSON value within white space
Unmarshal(p) ==
    LET i == FirstNonSpace(p, 1) IN
    IF /\ i # 0
       /\ p[i].t \in {"val", "obj"}
       /\ \A k \in 1..Len(p) : k # i => p[k].t = "ws"
    THEN [err |-> "nil",
          v |-> IF p[i].t = "obj" THEN [kind |-> "obj", repr |-> p[i].text] ELSE p[i].j.go]
    ELSE [err |-> "syntax", v |-> NullValue]

\* w = wirePV{Value: v}
GenericW(w, v) == [Time |-> Int64(0, 0), Value |-> v, State |-> 0]

\* w = wirePV{Value: string(payload)}
\* variant: only the value is assigned, w.Value = string(payload)
RawWKeepsFields(w, p) == [w EXCEPT !.Value = [kind |-> "string", repr |-> PayloadText(p)]]

RawW(w, p) ==
    [Time |-> Int64(0, 0), Value |-> [kind |-> "string", repr |-> PayloadText(p)], State |-> 0]

\* time.Unix(0, w.Time*1000000), in nanoseconds since the epoch. The product
\* is an int64 and wraps around: 2^58 * 1000000 = 15625 * 2^64, so the high
\* part of ts contributes nothing to it.
\* variant: the milliseconds are taken as nanoseconds
UnixOfMilliUnscaled(ts) == ts.lo

UnixOfMilli(ts) == ts.lo * NanosPerMilli

\* wireToPV(payload) at the instant now: [err, pv], and the tier that gave w
wireToPV(p, now) ==
    LET d == DecoderDecode(p)
        readErr == IF d.err = "nil" THEN ReadAllErr(p, d.at) ELSE "nil"
        err == IF d.err = "nil" /\ UnexpectedContent(p, d.at) THEN "unexpected" ELSE d.err
        g == Unmarshal(p)
        tier == IF err = "nil" THEN 1 ELSE IF g.err = "nil" THEN 2 ELSE 3
        w == CASE tier = 1 -> d.w
               [] tier = 2 -> GenericW(d.w, g.v)
               [] OTHER -> RawW(d.w, p)
        ts == IF w.Time = Int64(0, 0) THEN now ELSE UnixOfMilli(w.Time)
    IN IF readErr # "nil"
       THEN [err |-> readErr, pv |-> [Time |-> 0, Value |-> NullValue, State |-> 0], tier |-> 0]
       ELSE [err |-> "nil", pv |-> [Time |-> ts, Value |-> w.Value, State |-> w.State],
             tier |-> tier]

(***************************************************************************)
(* The codec applied to one drawn input: a PV that is encoded and decoded  *)
(* again, or a payload that is decoded                                     *)
(***************************************************************************)
\* instants of the PVs, in nanoseconds since the epoch
PVTimes == {-1500000, 0, 999999, 1234567, 2000000}

\* scalar values of a PV: bool, float64, int, string, nil; a NaN and a string
\* that is not UTF-8 among them
PVValues ==
    { [kind |-> "bool", repr |-> "true"],
      [kind |-> "number", repr |-> "42.5"],
      [kind |-> "int", repr |-> "7"],
      [kind |-> "int", repr |-> "9007199254740993"],
      [kind |-> "string", repr |-> "abc"],
      [kind |-> "string", repr |-> "a<0xFF>"],
      [kind |-> "null", repr |-> "null"],
      [kind |-> "nan", repr |-> "NaN"] }

\* veap.State is an integer: Good, Uncertain, Bad, and one that is none of them
PVStates == {0, 100, 200, 7}

PVs == [Time : PVTimes, Value : PVValues, State : PVStates]

NoPV == [Time |-> 0, Value |-> NullValue, State |-> 0]

\* members of the objects drawn as payloads
MemberChoices ==
    { Member("ts", JInt(0)), Member("ts", JInt(1234)), Member("ts", JString("x")),
      Member("ts", JInt64(1, 1234, "288230376151712978")),
      Member("v", JNumber("42.5")), Member("v", JString("abc")), Member("v", JNull),
      Member("s", JInt(100)), Member("s", JInt(7)), Member("s", JInt(-1)),
      Member("x", JInt(1)), Member("V", JInt(5)) }

Objects == {Obj(ms) : ms \in SeqsUpTo(MemberChoices, MaxMembers)}

Bodies ==
    Objects \cup
    { Val(JNull), Val(JBool("true")), Val(JNumber("42.5")), Val(JString("abc")),
      Val(JComposite("arr", "[1]")), Junk("abc") }

Leads == {<<>>, <<WS(1)>>}

\* what follows the first value: nothing, white space, other content at once
\* or after white space, and other content at the last byte of the first
\* read of the decoder and at the first byte after it
Tails(used) ==
    { <<>>, <<WS(1)>>, <<Junk("!")>>, <<WS(1), Junk("!")>>,
      <<Obj(<<Member("v", JNull)>>)>>,
      <<WS(MinRead - used - 1), Junk("!")>>,
      <<WS(MinRead - used), Junk("!")>> }

Payloads ==
    {<<>>, <<WS(1)>>} \cup
    UNION { { l \o <<b>> \o t : t \in Tails(BytesUpTo(l \o <<b>>, Len(l) + 1)) } :
            l \in Leads, b \in Bodies }

PendingDec == [done |-> FALSE, now |-> 0, err |-> "none", pv |-> NoPV, tier |-> 0]

InitCodec ==
    /\ cDec = PendingDec
    /\ \/ cPV \in PVs /\ cPayload = <<>> /\ cEnc = "pending"
       \/ cPV = NoPV /\ cPayload \in Payloads /\ cEnc = "none"

CodecAtRest ==
    cPV = NoPV /\ cPayload = <<>> /\ cEnc = "none" /\ cDec = PendingDec

\* pl, err := pvToWire(pv)
ApplyEncode ==
    /\ cEnc = "pending"
    /\ LET r == pvToWire(cPV) IN
          /\ cEnc' = r.err
          /\ cPayload' = IF r.err = "nil" THEN MarshalWire(r.pl) ELSE <<>>
    /\ UNCHANGED <<cPV, cDec, cfgVars, srvVars, chainVars, pubVars, callVars, concVars>>

\* pv, err := wireToPV(payload)
ApplyDecode ==
    /\ cEnc \in {"none", "nil"}
    /\ ~cDec.done
    /\ \E now \in Clock :
          LET r == wireToPV(cPayload, now)
          IN cDec' = [done |-> TRUE, now |-> now, err |-> r.err, pv |-> r.pv, tier |-> r.tier]
    /\ UNCHANGED <<cPV, cPayload, cEnc, cfgVars, srvVars, chainVars, pubVars, callVars, concVars>>

NextCodec == ApplyEncode \/ ApplyDecode


(***************************************************************************)
(* Specifications                                                          *)
(***************************************************************************)
\* the Server with its listeners
Init == InitServer /\ InitChain /\ PublishAtRest /\ CodecAtRest /\ CallAtRest /\ ConcAtRest

Next == NextServer \/ NextCalls

Spec == Init /\ [][Next]_vars

\* the Server under the scheduling of the Go runtime: a goroutine that can
\* take a step takes it, a blocked Wait returns once the counter is zero, and
\* the consumer keeps receiving
Fairness ==
    /\ \A l \in Listeners : WF_vars(TaskProgress(l))
    /\ WF_vars(StartSecure)
    /\ WF_vars(StopWait)
    /\ WF_vars(Receive)

FairSpec == Spec /\ Fairness

\* the chain of handlers
InitChainSpec == ServerAtRest /\ InitChain /\ PublishAtRest /\ CodecAtRest /\ CallAtRest /\ ConcAtRest

SpecChain == InitChainSpec /\ [][NextChain]_vars

\* publishEvent on drawn inputs
InitPublishSpec == ServerAtRest /\ InitChain /\ InitPublish /\ CodecAtRest /\ CallAtRest /\ ConcAtRest

SpecPublish == InitPublishSpec /\ [][NextPublish]_vars

\* the wire codec on drawn inputs
InitCodecSpec == ServerAtRest /\ InitChain /\ PublishAtRest /\ InitCodec /\ CallAtRest /\ ConcAtRest

SpecCodec == InitCodecSpec /\ [][NextCodec]_vars

\* concurrent calls of Event on one EventReceiver
InitConcSpec ==
    ServerAtRest /\ InitChain /\ PublishAtRest /\ CodecAtRest /\ CallAtRest /\ InitConc

SpecConc == InitConcSpec /\ [][NextConc]_vars


(***************************************************************************)
(* Properties                                                              *)
(***************************************************************************)
Other(l) == IF l = "plain" THEN "secure" ELSE "plain"

\* the messages of listener l that are in the channel or were received
ReportsOf(l) ==
    {i \in 1..Len(chanBuf) : chanBuf[i].from = l} \cup
    {Len(chanBuf) + i : i \in {j \in 1..Len(received) : received[j].from = l}}

Delivered(l) == \E i \in 1..Len(received) : received[i].from = l

\* a state of the listener automaton of the design: Created, Starting,
\* Running, Stopping, Stopped, Failed
ListenerState(l) ==
    CASE task[l].pc = "none" -> "Created"
      [] task[l].pc \in {"load", "listen"} -> "Starting"
      [] task[l].pc = "serving" -> IF server = "closed" THEN "Stopping" ELSE "Running"
      [] task[l].pc = "servingLate" -> "Running"
      [] OTHER -> IF task[l].err = "nil" THEN "Stopped" ELSE "Failed"

\* C1: every handler of the chain, and the final receiver, has been called
\* with exactly the notifications the source delivered, once each and in the
\* order of delivery; during a call the handlers the call has not reached yet
\* lack only the notification in progress. This holds whatever the outcome of
\* the local publish attempts.
C1_ChainForwarding ==
    \A h \in 1..Final :
        observed[h] = IF hop = 0 \/ dir = "ret" \/ h <= hop
                      THEN fed
                      ELSE SubSeq(fed, 1, Len(fed) - 1)

\* C1 witness: MaxEvents value changes were delivered, no handler could
\* publish any of them, and every handler observed all of them.
C1_Witness ==
    /\ hop = 0 /\ dir = "ret"
    /\ Len(fed) = MaxEvents
    /\ \A i \in 1..Len(fed) : fed[i].kind = "Event"
    /\ \E i \in 1..Len(fed) : fed[i].address = <<"A", ":", "A">> /\ fed[i].value.kind = "bool"
    /\ \A h \in Handlers : published[h] = <<>>
    /\ \A h \in 1..Final : observed[h] = fed

\* C2: when publishEvent fails in Event, the error is logged, nothing is
\* published for the event, Next.Event is called exactly once with the
\* arguments Event received, and Event returns the value Next.Event returned,
\* which is never the publish error.
C2_PublishFailureOnlyLogged ==
    \A h \in Handlers :
        (cur.kind = "Event" /\ callLog[h].pubErr \notin {"nil", "none"}) =>
            /\ callLog[h].logged
            /\ callLog[h].forwards = 1
            /\ callLog[h].fwd = cur
            /\ observed[h + 1][Len(observed[h + 1])] = cur
            /\ callLog[h].ret # "none" =>
                  /\ callLog[h].ret = callLog[h].nextRet
                  /\ callLog[h].ret \in NextResults
                  /\ callLog[h].ret # callLog[h].pubErr

\* C2 witness: the broker refused the publish of the first handler, and the
\* call returned the error of the final receiver.
C2_Witness ==
    /\ hop = 0 /\ cur.kind = "Event"
    /\ callLog[1].pubErr = "publish"
    /\ callLog[1].ret = "nextErr"
    /\ callLog[ChainLen].pubErr = "nil"

\* C3 as claimed: when Stop has returned, every listener goroutine has
\* terminated.
C3_StopWaitsForTermination ==
    pcMain = "stopped" => \A l \in Listeners : task[l].pc \in {"none", "exit"}

\* C3 amended: when Stop has returned, every spawned listener goroutine has
\* left its serve phase and has called doneServer.Done(); the only step it
\* may still have to take is the send of its error to ServeErr.
C3_StopWaitsForDone ==
    pcMain = "stopped" =>
        \A l \in Listeners :
            /\ task[l].pc \in {"none", "send", "exit"}
            /\ task[l].pc # "none" => task[l].dones = 1

\* C3 witness: Stop has returned while a listener is still in its send.
C3_Witness ==
    /\ pcMain = "stopped"
    /\ \E l \in Listeners : task[l].pc = "send" /\ task[Other(l)].pc = "exit"

C4_StopReturnsUnlessLate ==
    (pcMain = "stopWait") ~> (pcMain = "stopped" \/ \E l \in Listeners : task[l].pc = "servingLate")

\* C5: whatever the state of its sibling (failed, blocked in its report,
\* terminated), a listener that is starting can take its next step, and until
\* Stop is called its bind can succeed and bring it to Running; the broker is
\* closed by Stop only. With a ServeErr channel supplied, a listener that
\* failed and terminated has sent exactly one message, tagged as its own, with
\* its own error, and a listener that has not failed has sent none.
C5_ListenerIsolation ==
    /\ server = "closed" => pcMain \in {"stopWait", "stopped"}
    /\ \A l \in Listeners :
        /\ task[l].pc \in {"load", "listen"} => ENABLED TaskProgress(l)
        /\ (task[l].pc = "listen" /\ pcMain \notin {"stopWait", "stopped"}) =>
              ENABLED (Listen(l) /\ task'[l].pc = "serving")
        /\ (task[l].pc = "exit" /\ task[l].err # "nil" /\ ~ServeErr.isNil) =>
              /\ Cardinality(ReportsOf(l)) = 1
              /\ \A i \in 1..Len(chanBuf) :
                    chanBuf[i].from = l => chanBuf[i].err = task[l].err
              /\ \A i \in 1..Len(received) :
                    received[i].from = l => received[i].err = task[l].err
        /\ (task[l].pc # "exit" \/ task[l].err = "nil") => ReportsOf(l) = {}

\* C5 witness: the secure listener failed on its certificate and reported
\* it, the plain listener is Running.
C5_Witness ==
    /\ ListenerState("secure") = "Failed" /\ task["secure"].err = "cert"
    /\ task["secure"].pc = "exit" /\ Cardinality(ReportsOf("secure")) = 1
    /\ ListenerState("plain") = "Running"

\* C6 as claimed: a listener that is reporting its error can always complete
\* the report.
C6_ReportNeverBlocks ==
    \A l \in Listeners : task[l].pc = "send" => ENABLED SendErr(l)

\* C6 amended: the report is a blocking channel send made after the listener
\* has called doneServer.Done(). It can complete exactly when an unbuffered
\* ServeErr has a receiver or a buffered ServeErr has room; otherwise the
\* listener goroutine stays in the send. It never holds back Stop: when all
\* listeners are past their Done, the Wait of Stop can return.
C6_ReportBlocksOnlyTask ==
    /\ \A l \in Listeners :
          task[l].pc = "send" =>
              /\ task[l].dones = 1
              /\ ENABLED SendErr(l) <=>
                    IF ServeErr.cap = 0 THEN consumer ELSE Len(chanBuf) < ServeErr.cap
    /\ (pcMain = "stopWait" /\ \A l \in Listeners : task[l].pc \in {"none", "send", "exit"})
          => ENABLED StopWait

\* C6 witness: a failed listener is blocked in its send on an unbuffered
\* channel without receiver, and Stop has returned.
C6_Witness ==
    /\ \E l \in Listeners : task[l].pc = "send" /\ ~ENABLED SendErr(l)
    /\ ServeErr.cap = 0 /\ ~consumer
    /\ pcMain = "stopped"

\* C7: with a consumer that keeps receiving from ServeErr, the error of every
\* listener that failed is eventually received by the consumer.
C7_FailureDelivered ==
    \A l \in Listeners : (consumer /\ task[l].err # "nil") ~> Delivered(l)

\* C7 witness: the consumer received the serve error of a listener after Stop
\* had returned.
C7_Witness ==
    \E i \in 1..Len(received) :
        /\ received[i].from \in Listeners
        /\ received[i].afterStop
        /\ received[i].err = "bind"

\* C8: with a certificate that fails to load, the secure listener never calls
\* ListenAndServeTLS and is never Running; once the load has failed its error
\* is the certificate error and it is Failed; Start has returned whatever the
\* state of the report; and, with a ServeErr channel supplied, the listener
\* that terminated has sent exactly that error.
C8_CertFailure ==
    ~certValid =>
        /\ task["secure"].pc \notin {"listen", "serving", "servingLate"}
        /\ ListenerState("secure") \in {"Created", "Starting", "Failed"}
        /\ task["secure"].pc \in {"certfail", "send", "exit"} =>
              /\ task["secure"].err = "cert"
              /\ pcMain \in {"started", "stopWait", "stopped"}
        /\ (task["secure"].pc = "exit" /\ ~ServeErr.isNil) =>
              /\ Cardinality(ReportsOf("secure")) = 1
              /\ \A i \in 1..Len(received) :
                    received[i].from = "secure" => received[i].err = "cert"
              /\ \A i \in 1..Len(chanBuf) :
                    chanBuf[i].from = "secure" => chanBuf[i].err = "cert"

\* C8 witness: the certificate failed to load, the consumer has received the
\* report before any Stop, and the plain listener is serving.
C8_Witness ==
    /\ ~certValid
    /\ task["secure"].pc = "exit"
    /\ \E i \in 1..Len(received) :
          received[i] = [from |-> "secure", err |-> "cert", afterStop |-> FALSE]
    /\ pcMain = "started"
    /\ task["plain"].pc = "serving"

\* C9: every message publishEvent submits uses QoS 2 without retain when the
\* parameter name is INSTALL_TEST or begins with PRESS_, and QoS 1 with retain
\* for every other name, whatever the address, the value and the instant; no
\* message uses QoS 0, and retain is set exactly when the QoS is 1.
C9_PublishDecision ==
    pRes.done =>
        \A i \in 1..Len(pRes.pubs) :
            LET m == pRes.pubs[i]
                transient ==
                    \/ pValueKey = INSTALL_TEST
                    \/ /\ Len(pValueKey) >= Len(PRESS_)
                       /\ SubSeq(pValueKey, 1, Len(PRESS_)) = PRESS_
            IN /\ transient => (m.qos = 2 /\ m.retain = FALSE)
               /\ ~transient => (m.qos = 1 /\ m.retain = TRUE)
               /\ m.qos # 0
               /\ m.retain <=> (m.qos = 1)

\* C9 witness: a PRESS_SHORT event was published with QoS 2 and no retain.
C9_Witness ==
    /\ pRes.done
    /\ pValueKey = PRESS_ \o <<"S","H","O","R","T">>
    /\ Len(pRes.pubs) = 1
    /\ pRes.pubs[1].qos = 2 /\ ~pRes.pubs[1].retain

ColonCount(s) == Cardinality({i \in 1..Len(s) : s[i] = ":"})

\* C10 as claimed: an address with no colon or with more than one colon gives
\* the address error and no publication.
C10_ExactlyOneColon ==
    (pRes.done /\ ColonCount(pAddress) # 1) =>
        (pRes.err = "address" /\ pRes.pubs = <<>>)

\* C10 amended: an address without colon gives the address error and no
\* publication; an address with one or more colons never gives the address
\* error: it is split at its first colon, the device being the text before it
\* and the channel all the text after it.
C10_AtLeastOneColon ==
    pRes.done =>
        /\ ColonCount(pAddress) = 0 => (pRes.err = "address" /\ pRes.pubs = <<>>)
        /\ ColonCount(pAddress) >= 1 =>
              /\ pRes.err # "address"
              /\ \A i \in 1..Len(pRes.pubs) :
                    \E p \in 1..Len(pAddress) :
                        /\ pAddress[p] = ":"
                        /\ \A q \in 1..(p - 1) : pAddress[q] # ":"
                        /\ pRes.pubs[i].topic =
                              deviceStatusTopic \o <<"/">> \o SubSeq(pAddress, 1, p - 1)
                                  \o <<"/">> \o SubSeq(pAddress, p + 1, Len(pAddress))
                                  \o <<"/">> \o pValueKey

\* C10 witness: an address with two colons was published.
C10_Witness ==
    /\ pRes.done
    /\ pAddress = <<"A", ":", "A", ":">>
    /\ pRes.err = "nil"
    /\ Len(pRes.pubs) = 1

\* C11: for an address D:C with exactly one colon and a parameter name P,
\* every publication of publishEvent has the topic device/status/D/C/P, and
\* that topic is the same for every value, instant and broker outcome: it
\* depends on the address and the parameter name only.
C11_TopicOfAddress ==
    (pRes.done /\ ColonCount(pAddress) = 1) =>
        \E k \in 1..Len(pAddress) :
            /\ pAddress[k] = ":"
            /\ LET D == SubSeq(pAddress, 1, k - 1)
                   C == SubSeq(pAddress, k + 1, Len(pAddress))
                   T == <<"d","e","v","i","c","e","/","s","t","a","t","u","s","/">>
                            \o D \o <<"/">> \o C \o <<"/">> \o pValueKey
               IN /\ \A i \in 1..Len(pRes.pubs) : pRes.pubs[i].topic = T
                  /\ \A v \in Values, now \in Clock, ok \in BOOLEAN :
                        LET r == publishEvent(pAddress, pValueKey, v, now, ok)
                        IN \A i \in 1..Len(r.pubs) : r.pubs[i].topic = T

\* C11 witness: AABB1234:3 with STATE was published on
\* device/status/AABB1234/3/STATE.
C11_Witness ==
    /\ pRes.done
    /\ pAddress = <<"A","A","B","B","1","2","3","4",":","3">>
    /\ pValueKey = <<"S","T","A","T","E">>
    /\ Len(pRes.pubs) = 1
    /\ pRes.pubs[1].topic =
          <<"d","e","v","i","c","e","/","s","t","a","t","u","s","/",
            "A","A","B","B","1","2","3","4","/","3","/","S","T","A","T","E">>

\* a value-change event whose address has no separator
Malformed(n) == n.kind = "Event" /\ ColonCount(n.address) = 0

\* C12 as claimed: the call of Event for an event with a malformed address
\* returns the address error to its caller.
C12_AddressErrorReturned ==
    \A h \in Handlers :
        (Malformed(cur) /\ callLog[h].ret # "none") => callLog[h].ret = "address"

\* C12 amended: for an event with a malformed address publishEvent returns
\* the address error to Event within the call; Event logs it and does not
\* return it: the caller of Event receives the result of Next.Event.
C12_AddressErrorLoggedNotReturned ==
    \A h \in Handlers :
        (Malformed(cur) /\ callLog[h].pubErr # "none") =>
            /\ callLog[h].pubErr = "address"
            /\ callLog[h].logged
            /\ callLog[h].ret # "none" =>
                  /\ callLog[h].ret # "address"
                  /\ callLog[h].ret = callLog[h].nextRet

\* C12 witness: the source delivered an event with address A, every handler
\* got the address error from publishEvent, and the call returned nil to the
\* source.
C12_Witness ==
    /\ hop = 0 /\ dir = "ret"
    /\ cur.kind = "Event" /\ cur.address = <<"A">>
    /\ \A h \in Handlers : callLog[h].pubErr = "address" /\ callLog[h].logged
    /\ retv = "nil"

RECURSIVE FlattenPubs(_)
FlattenPubs(as) == IF as = <<>> THEN <<>> ELSE Head(as).pubs \o FlattenPubs(Tail(as))

\* C13: an event with a malformed address gives no publication and is
\* forwarded to the next handler; the publications of a handler are, in
\* order, those of its single calls, and the outcome of each call is that of
\* its own event alone: a well-formed event with an encodable value, a valid
\* topic and a broker that accepts it is published exactly once, whatever
\* was delivered before it.
C13_MalformedEventIsolated ==
    \A h \in Handlers :
        /\ published[h] = FlattenPubs(attempts[h])
        /\ \A i \in 1..Len(attempts[h]) :
              LET a == attempts[h][i] IN
              /\ a.note = fed[i]
              /\ observed[h + 1][i] = fed[i]
              /\ Malformed(a.note) => (a.pubs = <<>> /\ a.err = "address")
              /\ ( /\ a.note.kind = "Event" /\ ~Malformed(a.note)
                   /\ a.brokerOK /\ a.note.value.kind # "nan"
                   /\ "#" \notin Range(a.note.address) )
                 => (a.err = "nil" /\ Len(a.pubs) = 1)

\* C13 witness: a malformed event was followed by a well-formed one; the
\* first handler published the second event only, and the final receiver
\* observed both.
C13_Witness ==
    /\ hop = 0 /\ Len(fed) = 2
    /\ Malformed(fed[1])
    /\ fed[2].kind = "Event" /\ fed[2].address = <<"A", ":", "A">> /\ fed[2].value.kind = "bool"
    /\ Len(published[1]) = 1
    /\ published[1][1].topic =
          <<"d","e","v","i","c","e","/","s","t","a","t","u","s","/","A","/","A","/","S","T","A","T","E">>
    /\ observed[Final] = fed

\* a scalar value of a PV
Scalar(v) == v.kind \in {"bool", "number", "int", "string", "null"}

\* equal values; json gives every number back as a float64, so numbers are
\* compared by their numeral
SameValue(a, b) ==
    \/ a = b
    \/ a.kind \in {"int", "number"} /\ b.kind = "number" /\ a.repr = b.repr

\* an instant in nanoseconds, truncated toward zero to whole milliseconds
MilliTrunc(t) ==
    (IF t >= 0 THEN t \div 1000000 ELSE -((-t) \div 1000000)) * 1000000

\* C14 as claimed: for every PV with a scalar value, any status and any
\* timestamp, the PV decoded from its encoding has the same value, the same
\* status and the timestamp truncated to milliseconds.
C14_RoundTripEveryPV ==
    (cEnc = "nil" /\ cDec.done /\ Scalar(cPV.Value)) =>
        /\ cDec.err = "nil"
        /\ SameValue(cPV.Value, cDec.pv.Value)
        /\ cDec.pv.State = cPV.State
        /\ cDec.pv.Time = MilliTrunc(cPV.Time)

\* C14 amended: for every PV with a scalar value and any status, the PV
\* decoded from its encoding has the same status; the same value when the
\* value is a boolean, null, a string of valid UTF-8 or a number that is a
\* float64 (an integer beyond 2^53 comes back as the nearest float64, a
\* string that is not UTF-8 with U+FFFD in place of its invalid bytes); and
\* the timestamp truncated toward zero to milliseconds when that is not the
\* epoch itself: a PV less than a millisecond from the epoch is encoded with
\* ts 0 and decoded with the time of the call of wireToPV.
C14_RoundTrip ==
    (cEnc = "nil" /\ cDec.done /\ Scalar(cPV.Value)) =>
        /\ cDec.err = "nil"
        /\ cDec.pv.State = cPV.State
        /\ cDec.pv.Time =
              IF MilliTrunc(cPV.Time) # 0 THEN MilliTrunc(cPV.Time) ELSE cDec.now
        /\ CASE cPV.Value = [kind |-> "int", repr |-> "9007199254740993"] ->
                    cDec.pv.Value = [kind |-> "number", repr |-> "9007199254740992"]
              [] cPV.Value = [kind |-> "string", repr |-> "a<0xFF>"] ->
                    cDec.pv.Value = [kind |-> "string", repr |-> "a<U+FFFD>"]
              [] OTHER -> SameValue(cPV.Value, cDec.pv.Value)

\* C14 witness: the PV 42.5, Uncertain, 1234567 ns after the epoch was
\* encoded and decoded to 42.5, Uncertain, 1 ms after the epoch.
C14_Witness ==
    /\ cEnc = "nil" /\ cDec.done
    /\ cPV = [Time |-> 1234567, Value |-> [kind |-> "number", repr |-> "42.5"], State |-> 100]
    /\ cDec.pv = [Time |-> 1000000, Value |-> [kind |-> "number", repr |-> "42.5"], State |-> 100]

\* C15: wireToPV returns a PV and no error for every payload: the empty one,
\* white space, bytes that are no JSON, JSON values of every kind, objects
\* with and without other content after them.
C15_DecodeTotal ==
    cDec.done => (cDec.err = "nil" /\ cDec.tier \in {1, 2, 3})

\* C15 witness: the empty payload was decoded to the empty string.
C15_Witness ==
    /\ cDec.done /\ cEnc = "none"
    /\ cPayload = <<>>
    /\ cDec.err = "nil"
    /\ cDec.pv.Value = [kind |-> "string", repr |-> ""]

\* the payload is one JSON value within white space
ValidJSON(p) ==
    \E i \in 1..Len(p) :
        /\ p[i].t \in {"val", "obj"}
        /\ \A k \in 1..Len(p) : k # i => p[k].t = "ws"

\* the payload is one JSON object within white space and all its keys are
\* ts, v or s
StrictShape(p) ==
    \E i \in 1..Len(p) :
        /\ p[i].t = "obj"
        /\ \A k \in 1..Len(p) : k # i => p[k].t = "ws"
        /\ \A m \in 1..Len(p[i].members) : p[i].members[m].k \in {"ts", "v", "s"}

\* the value of a payload that is one JSON value
WholeValue(p) ==
    LET i == CHOOSE i \in 1..Len(p) : p[i].t \in {"val", "obj"}
    IN IF p[i].t = "obj" THEN [kind |-> "obj", repr |-> p[i].text] ELSE p[i].j.go

\* C16: a payload that is not a single object with only the keys ts, v, s
\* within white space is never decoded by the strict tier, whatever its
\* length: if it is one JSON value, that whole value is the value of the PV,
\* and if it is not, the whole payload is the value, as a string.
C16_TierOrder ==
    (cEnc = "none" /\ cDec.done /\ ~StrictShape(cPayload)) =>
        IF ValidJSON(cPayload)
        THEN cDec.pv.Value = WholeValue(cPayload)
        ELSE cDec.pv.Value = [kind |-> "string", repr |-> PayloadText(cPayload)]

\* C16 witness: the object {"v":42.5}, followed by blanks up to the 512th
\* byte and then by other content, was decoded by the strict tier to 42.5.
C16_Witness ==
    /\ cEnc = "none" /\ cDec.done
    /\ cPayload = <<Obj(<<Member("v", JNumber("42.5"))>>), WS(MinRead - 10), Junk("!")>>
    /\ cDec.tier = 1
    /\ cDec.pv.Value = [kind |-> "number", repr |-> "42.5"]

\* the integer of the last member of ms that sets the field f (0 if none),
\* as high part (multiples of 2^58) and low part
RECURSIVE LastInt(_, _)
LastInt(ms, f) ==
    IF ms = <<>> THEN [hi |-> 0, lo |-> 0]
    ELSE LET m == ms[Len(ms)]
             rest == SubSeq(ms, 1, Len(ms) - 1)
         IN IF m.k \in f /\ m.j.jt = "num" /\ m.j.isInt
            THEN [hi |-> m.j.hi, lo |-> m.j.n]
            ELSE LastInt(rest, f)

\* the members of the first value of the payload, when it is an object
FirstMembers(p) ==
    IF \E i \in 1..Len(p) : p[i].t # "ws"
    THEN LET i == CHOOSE i \in 1..Len(p) : p[i].t # "ws" /\ \A k \in 1..(i - 1) : p[k].t = "ws"
         IN p[i].members
    ELSE <<>>

\* C17: the timestamp of the decoded PV is ts milliseconds after the epoch
\* when the strict tier succeeded and the object gave a ts other than 0; in
\* every other case (no ts, ts 0, generic or raw-string tier, also when the
\* rejected object had a ts) it is the instant of the call. The decoded
\* instant is less than 2^58 ms from the epoch, so it is ts milliseconds
\* after the epoch only for a ts without high part.
C17_Timestamp ==
    (cEnc = "none" /\ cDec.done) =>
        LET ts == LastInt(FirstMembers(cPayload), {"ts", "TS"})
        IN IF cDec.tier = 1 /\ ts # [hi |-> 0, lo |-> 0]
           THEN ts.hi = 0 /\ cDec.pv.Time = ts.lo * 1000000
           ELSE cDec.pv.Time = cDec.now

\* C17 witness: the object {"ts":288230376151712978}, whose ts is
\* 2^58 + 1234, was decoded by the strict tier to the instant 1234 ms after
\* the epoch.
C17_Witness ==
    /\ cEnc = "none" /\ cDec.done
    /\ cPayload = <<Obj(<<Member("ts", JInt64(1, 1234, "288230376151712978"))>>)>>
    /\ cDec.tier = 1
    /\ cDec.pv.Time = 1234000000

\* C18: the status of the decoded PV is Good when the strict tier succeeded
\* on an object without s, and whenever the generic or the raw-string tier
\* gave the value, also when the rejected object had an s.
C18_Status ==
    (cEnc = "none" /\ cDec.done) =>
        /\ cDec.tier \in {2, 3} => cDec.pv.State = 0
        /\ ( /\ cDec.tier = 1
             /\ \A m \in 1..Len(FirstMembers(cPayload)) :
                   FirstMembers(cPayload)[m].k \notin {"s", "S"} )
           => cDec.pv.State = 0

\* C18 witness: the object {"s":7} followed by other content was decoded by
\* the raw-string tier with status Good.
C18_Witness ==
    /\ cEnc = "none" /\ cDec.done
    /\ cPayload = <<Obj(<<Member("s", JInt(7))>>), Junk("!")>>
    /\ cDec.tier = 3
    /\ cDec.pv.State = 0

\* C19: a call of Publish returns an error and submits nothing to the broker
\* when the topic is invalid, when qos is outside {0,1,2}, or when the broker
\* is not running (Start was never called, or Stop was called); otherwise,
\* when it returns without error, it has submitted exactly one message with
\* the given topic, payload, qos and retain flag, and when it returns an
\* error it has submitted nothing.
C19_PublishErrors ==
    pubCall.kind = "Publish" =>
        IF \/ ~ValidTopic(pubCall.args.topic)
           \/ ~ValidQoS(pubCall.args.qos)
           \/ pubCall.srv # "open"
        THEN pubCall.err \notin {"nil", "panic"} /\ pubCall.pubs = <<>>
        ELSE /\ pubCall.err # "panic"
             /\ pubCall.pubs = IF pubCall.err = "nil" THEN <<pubCall.args>> ELSE <<>>

\* C19 witness: Publish was called with a valid topic and a valid qos on a
\* Server whose Start was never called; the call reached b.server.Publish(pm)
\* with b.server nil and panicked instead of returning an error.
C19_Witness ==
    /\ pubCall.kind = "Publish"
    /\ pubCall.args.topic = <<"a", "/", "b">> /\ pubCall.args.qos = 1
    /\ pubCall.srv = "nil" /\ server = "nil"
    /\ pubCall.err = "panic" /\ pubCall.pubs = <<>>
    /\ pcMain = "panic"

\* C20: no call of Start, Stop, Publish, PublishPV or Event panics, in any
\* order of the calls and for every outcome of certificate loading, binding
\* and publishing.
C20_NoPanic == pcMain # "panic" /\ pubCall.err # "panic" /\ pubCall.ret # "panic"

\* C20 witness: Stop was called on a Server whose Start was never called;
\* b.server.Close() with b.server nil panicked, after an earlier Event with a
\* malformed address had only logged its error, called Next once and
\* returned the result of Next.
C20_Witness ==
    /\ pcMain = "panic" /\ server = "nil"
    /\ \A l \in Listeners : task[l].pc = "none"
    /\ pubCall.kind = "Event" /\ pubCall.args.address = <<"A">>
    /\ pubCall.err = "address" /\ pubCall.logged
    /\ Len(pubCall.fwd) = 1 /\ pubCall.ret = "nextErr"

\* the topic of a value-change event: device/status/<dev>/<ch>/<valueKey>,
\* the address split at its first colon
EventTopic(n) ==
    LET k == CHOOSE k \in 1..Len(n.address) :
                 n.address[k] = ":" /\ \A q \in 1..(k - 1) : n.address[q] # ":"
    IN <<"d","e","v","i","c","e","/","s","t","a","t","u","s","/">>
           \o SubSeq(n.address, 1, k - 1) \o <<"/">>
           \o SubSeq(n.address, k + 1, Len(n.address)) \o <<"/">> \o n.valueKey

\* C21: the publications of a translator are in source order. A handler
\* submits a message to the broker only inside its call for an event, and
\* that event is the one the source delivered last; the message is appended
\* after the publications of all earlier events and carries the topic and
\* the value of that event. The source delivers the next event only after
\* the call has returned, so no publication is reordered, batched or
\* deferred.
C21_SourceOrder ==
    [][\A h \in Handlers :
          published'[h] # published[h] =>
              /\ hop = h /\ dir = "call"
              /\ cur.kind = "Event" /\ ~Malformed(cur) /\ cur = fed[Len(fed)]
              /\ fed' = fed
              /\ Len(published'[h]) = Len(published[h]) + 1
              /\ SubSeq(published'[h], 1, Len(published[h])) = published[h]
              /\ published'[h][Len(published'[h])].topic = EventTopic(cur)
              /\ published'[h][Len(published'[h])].payload.v = cur.value]_vars

\* C21 witness: the source delivered the STATE event of A:A and then the
\* LEVEL event of ABC123:1; the first handler published both, in that order.
C21_Witness ==
    /\ hop = 0 /\ Len(fed) = 2
    /\ fed[1].address = <<"A", ":", "A">> /\ fed[1].valueKey = KeyState
    /\ fed[2].address = <<"A","B","C","1","2","3",":","1">>
    /\ Len(published[1]) = 2
    /\ published[1][1].topic = EventTopic(fed[1])
    /\ published[1][2].topic = EventTopic(fed[2])
    /\ published[1][1].topic # published[1][2].topic

\* C22: publishEvent submits at most one message, and exactly one when the
\* address has a separator, the topic is valid, the value has a JSON
\* encoding and the broker accepts. The message carries the event value
\* unchanged, status Good (s = 0) and the time of the call in whole
\* milliseconds. The event ABC123:1 LEVEL 42.5 gives one message on
\* device/status/ABC123/1/LEVEL with retain, QoS 1 and the payload fields
\* v = 42.5, ts = now in milliseconds, s = 0.
C22_EventPublishedOnce ==
    pRes.done =>
        /\ Len(pRes.pubs) <= 1
        /\ (pRes.err = "nil") <=> (Len(pRes.pubs) = 1)
        /\ \A i \in 1..Len(pRes.pubs) :
              /\ pRes.pubs[i].payload.v = pValue
              /\ pRes.pubs[i].payload.s = 0
              /\ pRes.pubs[i].payload.ts = pRes.now \div 1000000
        /\ ( /\ ColonCount(pAddress) >= 1
             /\ {"#", "+"} \cap (Range(pAddress) \cup Range(pValueKey)) = {}
             /\ pValue.kind # "nan"
             /\ pBrokerOK )
           => Len(pRes.pubs) = 1
        /\ ( /\ pAddress = <<"A","B","C","1","2","3",":","1">>
             /\ pValueKey = <<"L","E","V","E","L">>
             /\ pValue = [kind |-> "number", repr |-> "42.5"]
             /\ pBrokerOK )
           => pRes.pubs =
                 << [topic |-> <<"d","e","v","i","c","e","/","s","t","a","t","u","s","/",
                                "A","B","C","1","2","3","/","1","/","L","E","V","E","L">>,
                     payload |-> [ts |-> pRes.now \div 1000000,
                                  v |-> [kind |-> "number", repr |-> "42.5"], s |-> 0],
                     qos |-> 1, retain |-> TRUE] >>

\* C22 witness: the event ABC123:1 LEVEL 42.5 at the instant 1234567 ns was
\* published once, with ts = 1.
C22_Witness ==
    /\ pRes.done /\ pRes.now = 1234567
    /\ pAddress = <<"A","B","C","1","2","3",":","1">>
    /\ pValueKey = <<"L","E","V","E","L">>
    /\ pValue = [kind |-> "number", repr |-> "42.5"]
    /\ Len(pRes.pubs) = 1
    /\ pRes.pubs[1].payload = [ts |-> 1, v |-> [kind |-> "number", repr |-> "42.5"], s |-> 0]
    /\ pRes.pubs[1].retain /\ pRes.pubs[1].qos = 1

\* C23: for NewDevices, DeleteDevices, UpdateDevice, ReplaceDevice and
\* ReaddedDevice a handler makes no publish attempt and submits nothing to
\* the broker, calls the same method of Next exactly once with the arguments
\* it received, and returns the result of that call.
C23_PureRelay ==
    \A h \in Handlers :
        /\ \A i \in 1..Len(attempts[h]) :
              attempts[h][i].note.kind \in RelayKinds =>
                  /\ attempts[h][i].pubs = <<>>
                  /\ attempts[h][i].err = "none"
                  /\ observed[h + 1][i] = attempts[h][i].note
        /\ Len(published[h]) =
              Cardinality({i \in 1..Len(attempts[h]) :
                              attempts[h][i].note.kind = "Event" /\ attempts[h][i].err = "nil"})
        /\ (cur.kind \in RelayKinds /\ (hop > h \/ dir = "ret")) =>
              /\ callLog[h].pubErr = "none" /\ ~callLog[h].logged
              /\ callLog[h].forwards = 1
              /\ callLog[h].fwd = cur
              /\ Len(observed[h + 1]) = Len(fed)
              /\ (hop < h) => (callLog[h].ret = callLog[h].nextRet /\ callLog[h].ret # "none")

\* C23 witness: the source delivered NewDevices and then ReplaceDevice; no
\* handler published anything, the final receiver observed both, and the
\* error it returned for the second came back to the source.
C23_Witness ==
    /\ hop = 0 /\ dir = "ret" /\ Len(fed) = 2
    /\ fed[1].kind = "NewDevices" /\ fed[2].kind = "ReplaceDevice"
    /\ \A h \in Handlers : published[h] = <<>> /\ callLog[h].forwards = 1
    /\ observed[Final] = fed
    /\ retv = "nextErr"

\* C24: when the value of an event has no encoding in the wire schema, the
\* handler's publish attempt ends with the encoding error before Publish is
\* reached (the error is the encoding error also when the broker would have
\* refused the message), nothing is submitted to the broker, the error is
\* logged, the event is forwarded once to the next handler, and Event
\* returns the result of Next.Event, never the encoding error.
C24_EncodingErrorOnlyLogged ==
    \A h \in Handlers :
        /\ \A i \in 1..Len(attempts[h]) :
              LET a == attempts[h][i] IN
              (a.note.kind = "Event" /\ ~Malformed(a.note) /\ a.note.value.kind = "nan") =>
                  /\ a.err = "encoding"
                  /\ a.pubs = <<>>
                  /\ observed[h + 1][i] = a.note
        /\ \A i \in 1..Len(published[h]) : published[h][i].payload.v.kind # "nan"
        /\ ( /\ cur.kind = "Event" /\ ~Malformed(cur) /\ cur.value.kind = "nan"
             /\ (hop > h \/ dir = "ret") )
           => /\ callLog[h].pubErr = "encoding"
              /\ callLog[h].logged
              /\ callLog[h].forwards = 1 /\ callLog[h].fwd = cur
              /\ callLog[h].ret # "encoding"
              /\ (hop < h) => callLog[h].ret = callLog[h].nextRet

\* C24 witness: the source delivered the PRESS_ event of A:A whose value is
\* NaN; every handler logged the encoding error, its broker accepting or
\* not, none published, the final receiver observed the event and the call
\* returned nil to the source.
C24_Witness ==
    /\ hop = 0 /\ dir = "ret" /\ Len(fed) = 1
    /\ fed[1].kind = "Event" /\ fed[1].value.kind = "nan"
    /\ \A h \in Handlers :
          /\ callLog[h].pubErr = "encoding" /\ callLog[h].logged
          /\ published[h] = <<>>
    /\ attempts[1][1].brokerOK /\ ~attempts[2][1].brokerOK
    /\ observed[Final] = fed
    /\ retv = "nil"

C26_StartNonBlocking ==
    /\ pcMain = "idle" => ENABLED StartPlain
    /\ pcMain = "start67" => ENABLED StartSecure
    /\ pcMain = "start67" => (task["plain"].pc # "none" <=> Addr # "")
    /\ pcMain \in {"started", "stopWait", "stopped"} =>
          \A l \in Listeners : task[l].pc # "none" <=> AddrOf(l) # ""

\* C26 witness: Start has returned while the plain listener has not yet
\* called ListenAndServe, the secure listener has not yet loaded its
\* certificate, and ServeErr is a full buffered channel without receiver.
C26_Witness ==
    /\ pcMain = "started"
    /\ task["plain"].pc = "listen" /\ task["secure"].pc = "load"
    /\ ~ServeErr.isNil /\ ServeErr.cap > 0 /\ Len(chanBuf) = ServeErr.cap /\ ~consumer

\* the listeners Start has spawned and that have not called Done() yet
BeforeDone == {l \in Listeners : task[l].pc \in {"load", "listen", "serving", "servingLate", "down", "certfail"}}

\* the listeners that have called Done()
AfterDoneCalled == {l \in Listeners : task[l].pc \in {"send", "exit"}}

\* the spawned listeners whose serve phase has not ended: the serve call is
\* still to be made or has not returned
InServePhase == {l \in Listeners : task[l].pc \in {"load", "listen", "serving", "servingLate"}}

\* C27 as claimed: the counter of the barrier always equals the number of
\* spawned listeners whose serve phase has not yet ended.
C27_CountEqualsServing == doneServer = Cardinality(InServePhase)

\* C27 amended: every listener goroutine calls doneServer.Done() exactly once
\* on each of its paths (serve call returned nil, serve call returned an
\* error, certificate failed to load). The counter is incremented once per
\* non-empty address before Start returns; it is never negative and always
\* equals the number of spawned listeners that have not yet called Done(),
\* so it is never less than the number of listeners whose serve phase has
\* not yet ended: a listener whose serve call has returned, or whose
\* certificate failed to load, is still counted until its Done().
C27_BarrierCount ==
    /\ doneServer >= 0
    /\ doneServer = Cardinality(BeforeDone)
    /\ Cardinality(InServePhase) <= doneServer
    /\ \A l \in Listeners :
          /\ task[l].dones = IF l \in AfterDoneCalled THEN 1 ELSE 0
          /\ task[l].pc = "none" \/ AddrOf(l) # ""
    /\ pcMain \in {"started", "stopWait", "stopped"} =>
          Cardinality(BeforeDone) + Cardinality(AfterDoneCalled) =
              Cardinality({l \in Listeners : AddrOf(l) # ""})

\* C27 witness: both listeners were spawned; the secure one failed to load
\* its certificate and has signalled, the plain one failed to bind and has
\* signalled, each once, and the counter is back at zero.
C27_Witness ==
    /\ doneServer = 0
    /\ task["secure"].err = "cert" /\ task["secure"].dones = 1
    /\ task["plain"].err = "bind" /\ task["plain"].dones = 1
    /\ pcMain = "started"

\* C28: when Stop has returned, no listener is in its serve phase: for every
\* listener Start has spawned, the call of ListenAndServe or
\* ListenAndServeTLS has returned, or was never made because the certificate
\* failed to load; and Stop does not return while a serve call is running
\* or still to be made.
C28_NoServeAfterStop ==
    /\ pcMain = "stopped" =>
          /\ InServePhase = {}
          /\ \A l \in Listeners : ListenerState(l) \in {"Created", "Stopped", "Failed"}
    /\ (pcMain = "stopWait" /\ InServePhase # {}) => ~ENABLED StopWait

\* C28 witness: Stop has returned; the serve call of the plain listener was
\* ended by the close and has returned nil, and the secure listener never
\* made its serve call because its certificate failed to load.
C28_Witness ==
    /\ pcMain = "stopped"
    /\ task["plain"].pc = "exit" /\ task["plain"].err = "nil" /\ task["plain"].dones = 1
    /\ ~certValid /\ task["secure"].pc = "exit" /\ task["secure"].err = "cert"

\* C29: a listener goroutine sends at most one message to ServeErr, and
\* none when its serve call returned without error. With ServeErr nil it
\* never comes to a send: nothing is ever sent or received, and once it has
\* called Done() it has terminated.
C29_AtMostOneReport ==
    \A l \in Listeners :
        /\ Cardinality(ReportsOf(l)) <= 1
        /\ task[l].pc = "send" => ReportsOf(l) = {}
        /\ task[l].err = "nil" => (ReportsOf(l) = {} /\ task[l].pc # "send")
        /\ ServeErr.isNil =>
              /\ task[l].pc # "send"
              /\ ReportsOf(l) = {}
              /\ chanBuf = <<>> /\ received = <<>>
              /\ task[l].dones = 1 => task[l].pc = "exit"

\* C29 witness: with ServeErr nil, the plain listener failed to bind and the
\* secure listener failed to load its certificate; both have signalled and
\* terminated, and nothing was sent.
C29_Witness ==
    /\ ServeErr.isNil
    /\ task["plain"].err = "bind" /\ task["plain"].pc = "exit" /\ task["plain"].dones = 1
    /\ task["secure"].err = "cert" /\ task["secure"].pc = "exit" /\ task["secure"].dones = 1
    /\ received = <<>> /\ chanBuf = <<>>

\* the notifications of the entries of a log that belong to source s, in
\* the order of the log
NotesOf(log, s) ==
    LET mine == SelectSeq(log, LAMBDA e : e.src = s)
    IN [i \in 1..Len(mine) |-> mine[i].note]

\* C30: with two sources calling Event concurrently on one EventReceiver,
\* every call makes exactly one publish attempt and then exactly one call
\* of Next.Event, both with the arguments of that call: for each source the
\* publish attempts and the forwards are, in order, the events that source
\* delivered, none lost, duplicated or exchanged with those of the other
\* source, and whatever an attempt submits to the broker carries the topic
\* and the value of its own event. Across the sources the order is free.
C30_ConcurrentCalls ==
    /\ \A s \in Sources :
          LET calls == NotesOf(cCalls, s)
              atts == NotesOf(cAttempts, s)
              fwds == NotesOf(cForwards, s)
          IN /\ Len(atts) = Len(calls) - (IF cFrame[s].pc = "publish" THEN 1 ELSE 0)
             /\ Len(fwds) = Len(calls) - (IF cFrame[s].pc = "idle" THEN 0 ELSE 1)
             /\ atts = SubSeq(calls, 1, Len(atts))
             /\ fwds = SubSeq(calls, 1, Len(fwds))
    /\ \A i \in 1..Len(cAttempts) :
          /\ Len(cAttempts[i].pubs) <= 1
          /\ Malformed(cAttempts[i].note) => cAttempts[i].pubs = <<>>
          /\ \A k \in 1..Len(cAttempts[i].pubs) :
                /\ cAttempts[i].pubs[k].topic = EventTopic(cAttempts[i].note)
                /\ cAttempts[i].pubs[k].payload.v = cAttempts[i].note.value

\* C30 witness: the local source called Event with the STATE event, the
\* bridge called it with the LEVEL event before the first call had
\* published; the bridge's event was published first, the local one was
\* forwarded first, and both calls have returned.
C30_Witness ==
    /\ \A s \in Sources : cFrame[s].pc = "idle"
    /\ Len(cCalls) = 2
    /\ cCalls[1] = [src |-> "local", note |-> Note("Event", <<"A", ":", "A">>, KeyState,
                                                   [kind |-> "bool", repr |-> "true"])]
    /\ cCalls[2].src = "bridge" /\ cCalls[2].note.valueKey = <<"L","E","V","E","L">>
    /\ Len(cAttempts) = 2
    /\ cAttempts[1].src = "bridge" /\ Len(cAttempts[1].pubs) = 1
    /\ cAttempts[2].src = "local" /\ Len(cAttempts[2].pubs) = 1
    /\ cAttempts[1].pubs[1].topic # cAttempts[2].pubs[1].topic
    /\ cForwards = <<cCalls[1], cCalls[2]>>

\* C31: within a call of Event the call of Next.Event is made only after
\* publishEvent has returned, with success or with an error. Whenever Next
\* is called with an event, the publish attempt of that call has been made
\* before: it is the last attempt of the calling source, it was made for
\* the same event, and the source has made as many attempts as calls.
C31_PublishBeforeForward ==
    [][\A s \in Sources :
          Len(NotesOf(cForwards, s)') > Len(NotesOf(cForwards, s)) =>
              /\ cFrame[s].pc = "forward"
              /\ cAttempts' = cAttempts
              /\ Len(NotesOf(cAttempts, s)) = Len(NotesOf(cCalls, s))
              /\ Len(NotesOf(cAttempts, s)) = Len(NotesOf(cForwards, s)) + 1
              /\ NotesOf(cAttempts, s)[Len(NotesOf(cAttempts, s))] =
                    cForwards'[Len(cForwards')].note
              /\ cForwards'[Len(cForwards')].src = s]_vars

\* C31 witness: the LEVEL event of the local source was refused by the
\* broker; the publish attempt has returned its error and the event has
\* then been forwarded.
C31_Witness ==
    /\ Len(cAttempts) = 1 /\ Len(cForwards) = 1
    /\ cAttempts[1].src = "local" /\ cAttempts[1].err = "publish" /\ cAttempts[1].pubs = <<>>
    /\ cAttempts[1].note.valueKey = <<"L","E","V","E","L">>
    /\ cForwards[1] = [src |-> "local", note |-> cAttempts[1].note]
    /\ cFrame["local"].pc = "idle"

\* C32: every PV wireToPV returns has a status that is Good (0), Uncertain
\* (100) or Bad (200), for every payload, also for an object the strict tier
\* accepts with an arbitrary integer in s.
C32_StatusInEnum ==
    (cEnc = "none" /\ cDec.done) => cDec.pv.State \in {StateGood, 100, 200}

\* C32 witness: the object {"s":-1} was accepted by the strict tier and
\* decoded to a PV with the status -1.
C32_Witness ==
    /\ cEnc = "none" /\ cDec.done
    /\ cPayload = <<Obj(<<Member("s", JInt(-1))>>)>>
    /\ cDec.err = "nil" /\ cDec.tier = 1
    /\ cDec.pv.State = -1

\* C33: for every integer ts other than 0 that the strict tier accepts, over
\* the whole range of an int64, the decoded instant is exactly ts
\* milliseconds after the epoch: ts * 1000000 does not wrap around (ts has
\* no high part that the product loses), and pvToWire of the decoded PV
\* gives the same ts again.
C33_NoWrap ==
    (cEnc = "none" /\ cDec.done /\ cDec.tier = 1) =>
        LET ts == LastInt(FirstMembers(cPayload), {"ts", "TS"})
        IN ts # [hi |-> 0, lo |-> 0] =>
              /\ ts.hi = 0
              /\ cDec.pv.Time = ts.lo * 1000000
              /\ pvToWire(cDec.pv).pl.ts = ts.lo

\* C33 witness: the object {"ts":288230376151712978,"v":42.5} was accepted
\* by the strict tier; the product of ts = 2^58 + 1234 and 1000000 wrapped
\* around to 1234000000 ns, and pvToWire of the decoded PV gives ts = 1234.
C33_Witness ==
    /\ cEnc = "none" /\ cDec.done
    /\ cPayload = <<Obj(<<Member("ts", JInt64(1, 1234, "288230376151712978")),
                          Member("v", JNumber("42.5"))>>)>>
    /\ cDec.tier = 1
    /\ cDec.pv.Time = 1234000000
    /\ pvToWire(cDec.pv).pl.ts = 1234

=============================================================================
